---- MODULE Spec2Model ----
(***************************************************************************)
(* Model of the Polymarket relay: the trade executor and the status check  *)
(* (utils/polymarket.js, utils/hmac.js), the relay gate and the rate       *)
(* limiter (middleware/auth.js), the relay with the in-memory credential   *)
(* store (server.js), the credentials routes and POST /trade               *)
(* (routes/polymarket.js, db/init.js), and the signing routines called on  *)
(* their own.                                                              *)
(*                                                                         *)
(* JavaScript values are encoded as follows.  A string that matters only   *)
(* by identity is a TLA+ string; `undefined' is the string Undefined; a    *)
(* parsed JSON value is a record with a `type' field.  An address is a     *)
(* tuple of one-character strings so that toLowerCase is computed.         *)
(***************************************************************************)
EXTENDS Integers, Sequences, FiniteSets, TLC

VARIABLES
    pc,             \* position of the executeTrade call
    ownerAddress,   \* executeTrade argument
    funderAddress,  \* executeTrade argument (a JS value: undefined, null or a string)
    wire,           \* what the call did, in order: POSTs, responses, the timer
    result,         \* the local `result' of executeTrade
    ret,            \* the value executeTrade returned
    credentials,    \* executeTrade argument
    signedOrder,    \* executeTrade argument
    check,          \* the checkTradingStatus call: position, request, fetches made,
                    \* answer received, returned value
    now,            \* Date.now(), in milliseconds
    ticks,          \* how many times the clock has been advanced
    rateLimitMap,   \* Map userKey -> list of timestamps
    res,            \* the response of the last rateLimiter call
    admitted,       \* history: every timestamp the limiter admitted, per userId
    fresh,          \* history: requests of a user since the window last ran out
    hinted,         \* history: the earliest time a 429 told the user to come back at,
                    \* per userId; 0 when the user has been admitted since
    STORE,          \* server.js: Map rowKey -> {key, secret, pass, owner}
    rpc,            \* server.js: position of the request being handled
    rreq,           \* server.js: the request being handled
    up,             \* server.js: the locals `r' and `up' of auth-create
    rwire,          \* server.js: the fetches of the request being handled and their answers
    reply,          \* server.js: the response given to the caller
    db,             \* routes/polymarket.js: table user_credentials, user_id -> row
    dbres,          \* routes/polymarket.js: the response of the last credentials call
    signed,         \* utils/hmac.js, server.js: the latest signing call and the one before it
    tradeRoute      \* routes/polymarket.js: the POST /trade request being handled

tradeVars == <<pc, ownerAddress, funderAddress, wire, result, ret, credentials, signedOrder, check>>
rateVars  == <<now, ticks, rateLimitMap, res, admitted, fresh, hinted>>
relayVars == <<STORE, rpc, rreq, up, rwire, reply>>
credVars  == <<db, dbres>>
signVars  == <<signed>>
routeVars == <<tradeRoute>>
vars      == <<pc, ownerAddress, funderAddress, wire, result, ret, credentials, signedOrder, check,
               now, ticks, rateLimitMap, res, admitted, fresh, hinted,
               STORE, rpc, rreq, up, rwire, reply, db, dbres, signed, tradeRoute>>
otherThanTrade == <<rateVars, relayVars, credVars, signVars, routeVars>>
otherThanRate  == <<tradeVars, relayVars, credVars, signVars, routeVars>>

(***************************************************************************)
(* JavaScript values                                                       *)
(***************************************************************************)
Undefined == "<undefined>"

\* truthiness of a value that is a string or undefined
Truthy(s) == s # Undefined /\ s # ""

\* a || b
Or(a, b) == IF Truthy(a) THEN a ELSE b

JSUndefined == [type |-> "undefined", chars |-> <<>>]
JSNull      == [type |-> "null", chars |-> <<>>]
JSString(s) == [type |-> "string", chars |-> s]

\* truthiness of a value that is undefined, null or a string
TruthyValue(v) == v.type = "string" /\ v.chars # <<>>

LowerChar(c) ==
    CASE c = "A" -> "a" [] c = "B" -> "b" [] c = "C" -> "c"
      [] c = "D" -> "d" [] c = "E" -> "e" [] c = "F" -> "f"
      [] OTHER -> c

toLowerCase(s) == [i \in DOMAIN s |-> LowerChar(s[i])]

(***************************************************************************)
(* Strings that are concatenated, sliced or rewritten are tuples of        *)
(* one-character strings.                                                  *)
(***************************************************************************)
Digits == <<"0", "1", "2", "3", "4", "5", "6", "7", "8", "9">>

\* String(n), n.toString() and `${n}` for a non-negative integer n
RECURSIVE Decimal(_)
Decimal(n) == IF n < 10 THEN <<Digits[n + 1]>> ELSE Append(Decimal(n \div 10), Digits[(n % 10) + 1])

\* Math.floor(Date.now() / 1000)
EpochSeconds(t) == t \div 1000

GET           == <<"G", "E", "T">>
POST          == <<"P", "O", "S", "T">>
PathOrder     == <<"/", "o", "r", "d", "e", "r">>
PathBanStatus == <<"/", "a", "u", "t", "h", "/", "b", "a", "n", "-", "s", "t", "a", "t", "u", "s", "/", "c", "l", "o", "s", "e", "d", "-", "o", "n", "l", "y">>
PathApiKeys   == <<"/", "a", "u", "t", "h", "/", "a", "p", "i", "-", "k", "e", "y", "s">>

(***************************************************************************)
(* The exchange's answers                                                  *)
(***************************************************************************)
Statuses == {200, 201, 400, 403, 500}

ResponseTexts ==
    { "{\"orderID\":\"ord-123\"}",
      "{\"orderID\":\"ord-456\",\"error\":\"partial\"}",
      "{\"orderID\":\"\"}",
      "{\"error\":\"not enough balance\"}",
      "{\"message\":\"Forbidden\"}",
      "{}",
      "null",
      "<html>Access denied</html>",
      "" }

\* response.ok
ResponseOk(status) == status >= 200 /\ status <= 299

JSObject(orderID, error, message) ==
    [type |-> "object", orderID |-> orderID, error |-> error, message |-> message]

JSONNull == [type |-> "null", orderID |-> Undefined, error |-> Undefined, message |-> Undefined]

\* JSON.parse on the texts above: the parsed value, or throws
JSON_parse(text) ==
    CASE text = "{\"orderID\":\"ord-123\"}" ->
            [throws |-> FALSE, value |-> JSObject("ord-123", Undefined, Undefined)]
      [] text = "{\"orderID\":\"ord-456\",\"error\":\"partial\"}" ->
            [throws |-> FALSE, value |-> JSObject("ord-456", "partial", Undefined)]
      [] text = "{\"orderID\":\"\"}" ->
            [throws |-> FALSE, value |-> JSObject("", Undefined, Undefined)]
      [] text = "{\"error\":\"not enough balance\"}" ->
            [throws |-> FALSE, value |-> JSObject(Undefined, "not enough balance", Undefined)]
      [] text = "{\"message\":\"Forbidden\"}" ->
            [throws |-> FALSE, value |-> JSObject(Undefined, Undefined, "Forbidden")]
      [] text = "{}" ->
            [throws |-> FALSE, value |-> JSObject(Undefined, Undefined, Undefined)]
      [] text = "null" ->
            [throws |-> FALSE, value |-> JSONNull]
      [] OTHER ->
            [throws |-> TRUE, value |-> JSONNull]

\* what fetch / response.text() deliver: a response, or an exception
Responses ==
    [kind : {"response"}, status : Statuses, text : ResponseTexts]
    \cup [kind : {"exception"}, status : {0}, text : {"fetch failed"}]

(***************************************************************************)
(* utils/polymarket.js: attemptTrade                                       *)
(***************************************************************************)
\* data.error || data.message || responseText; reading a property of null throws
ErrorOf(data, responseText) == Or(data.error, Or(data.message, responseText))

\* attemptTrade reporting a network exception as a 403 of the exchange
attemptTrade_ExceptionAs403(resp) ==
    IF resp.kind = "exception"
    THEN [success |-> FALSE, hasData |-> FALSE, data |-> JSONNull,
          error |-> resp.text, status |-> 403]
    ELSE LET parsed == JSON_parse(resp.text)
             data   == IF parsed.throws
                       THEN JSObject(Undefined, Undefined, Undefined)
                       ELSE parsed.value
         IN  [success |-> ResponseOk(resp.status), hasData |-> TRUE, data |-> data,
              error |-> IF ~ResponseOk(resp.status) /\ data.type # "null"
                        THEN ErrorOf(data, resp.text) ELSE Undefined,
              status |-> resp.status]

\* the value attemptTrade resolves to, given what fetch delivered
attemptTrade(resp) ==
    IF resp.kind = "exception"
    THEN [success |-> FALSE, hasData |-> FALSE, data |-> JSONNull,
          error |-> resp.text, status |-> 500]
    ELSE LET parsed == JSON_parse(resp.text)
             data   == IF parsed.throws
                       THEN JSObject(Undefined, Undefined, Undefined)  \* { raw: responseText }
                       ELSE parsed.value
         IN  IF ~ResponseOk(resp.status) /\ data.type = "null"
             THEN \* data.error throws a TypeError inside the try block
                  [success |-> FALSE, hasData |-> FALSE, data |-> JSONNull,
                   error |-> "Cannot read properties of null (reading 'error')",
                   status |-> 500]
             ELSE [success |-> ResponseOk(resp.status), hasData |-> TRUE, data |-> data,
                   error |-> IF ~ResponseOk(resp.status)
                             THEN ErrorOf(data, resp.text) ELSE Undefined,
                   status |-> resp.status]

(***************************************************************************)
(* utils/polymarket.js: executeTrade                                       *)
(***************************************************************************)
\* mutant: the retry is taken on every client or server error
ShouldRetry_AnyError(r, owner, funder) ==
    /\ r.status >= 400
    /\ TruthyValue(funder)
    /\ toLowerCase(funder.chars) # toLowerCase(owner)

\* the condition of the `if' after the first attempt
ShouldRetry(r, owner, funder) ==
    /\ r.status = 403
    /\ TruthyValue(funder)
    /\ toLowerCase(funder.chars) # toLowerCase(owner)

\* mutant: the retry decision is taken again after the funder attempt
AfterAttempt_Loop(at, r, owner, funder) ==
    IF ShouldRetry(r, owner, funder) THEN "backoff" ELSE "done"

\* where executeTrade goes once an attempt has resolved
AfterAttempt(at, r, owner, funder) ==
    IF at = "attempt1" /\ ShouldRetry(r, owner, funder) THEN "backoff" ELSE "done"

\* the address handed to the second attemptTrade
RetryAddress(owner, funder) == funder.chars

\* mutant: the retry branch does not relabel the result
AttemptedWith_AlwaysOwner(retried) == "owner"

\* result.attemptedWith, set in the two branches of the `if'
AttemptedWith(retried) == IF retried THEN "funder" ELSE "owner"

\* result.data?.orderID
OrderIDOf(r) ==
    IF r.hasData /\ r.data.type # "null" THEN r.data.orderID ELSE Undefined

\* mutant: HTTP-OK alone counts as success
TradeSucceeded_OkOnly(r) == r.success

\* result.success && result.data?.orderID
TradeSucceeded(r) == r.success /\ Truthy(OrderIDOf(r))

\* mutant: the success value also carries the status of the attempt
TradeReturn_WithStatus(r, attemptedWith) ==
    IF r.success /\ Truthy(OrderIDOf(r))
    THEN [success |-> TRUE, orderId |-> OrderIDOf(r), status |-> r.status,
          attemptedWith |-> attemptedWith]
    ELSE [success |-> FALSE, error |-> Or(r.error, "Trade failed"),
          status |-> r.status, attemptedWith |-> attemptedWith]

\* the object executeTrade returns; absent keys are absent from the record
TradeReturn(r, attemptedWith) ==
    IF TradeSucceeded(r)
    THEN [success |-> TRUE, orderId |-> OrderIDOf(r), attemptedWith |-> attemptedWith]
    ELSE [success |-> FALSE, error |-> Or(r.error, "Trade failed"),
          status |-> r.status, attemptedWith |-> attemptedWith]

(***************************************************************************)
(* src/utils/hmac.js and the request attemptTrade and checkTradingStatus   *)
(* build                                                                   *)
(***************************************************************************)
\* secret.replace(/-/g, '+').replace(/_/g, '/')
NormalizeChar(c) == IF c = "-" THEN "+" ELSE IF c = "_" THEN "/" ELSE c
NormalizeSecret(secret) == [i \in DOMAIN secret |-> NormalizeChar(secret[i])]

\* HMAC-SHA256 of the message, base64: the digest is a function of the key
\* bytes and the message, and is kept as that pair.  The normalized secret
\* string itself is the key (it is not base64-decoded).
hmacBase64(secret, message) ==
    [hmac |-> "sha256", keyBytes |-> [encoding |-> "utf8", of |-> NormalizeSecret(secret)],
     message |-> message]

\* generateSignature taking the time from the clock instead of its argument
generateSignature_ReadsClock(secret, method, path, timestamp, body) ==
    LET given == IF body = JSUndefined THEN <<>> ELSE body.chars
    IN  hmacBase64(secret, method \o path \o Decimal(EpochSeconds(now)) \o given)

\* generateSignature without the default: `${undefined}' is the text undefined
generateSignature_NoDefault(secret, method, path, timestamp, body) ==
    LET given == IF body = JSUndefined
                 THEN <<"u", "n", "d", "e", "f", "i", "n", "e", "d">> ELSE body.chars
    IN  hmacBase64(secret, method \o path \o Decimal(timestamp) \o given)

\* `${method}${path}${timestamp}${body}`, signed; the parameter is declared
\* `body = ''', so an omitted (undefined) argument is the empty string
generateSignature(secret, method, path, timestamp, body) ==
    LET given == IF body = JSUndefined THEN <<>> ELSE body.chars
    IN  hmacBase64(secret, method \o path \o Decimal(timestamp) \o given)

\* the POLY_ headers of getBrowserHeaders and its Content-Type
getBrowserHeaders(address, apiKey, passphrase, timestamp, signature) ==
    [ContentType |-> "application/json", POLY_ADDRESS |-> address, POLY_API_KEY |-> apiKey,
     POLY_PASSPHRASE |-> passphrase, POLY_TIMESTAMP |-> Decimal(timestamp),
     POLY_SIGNATURE |-> signature]

\* JSON.stringify of a string without characters to escape
Quote(str) == <<"\"">> \o str \o <<"\"">>

\* JSON.stringify(signedOrder) of an order object {side: ...}
JSON_stringify(order) == <<"{">> \o Quote(<<"s", "i", "d", "e">>) \o <<":">> \o Quote(order.side) \o <<"}">>

\* a request handed to fetch
NoRequest == [method |-> <<>>, path |-> <<>>, headers |-> <<>>, hasBody |-> FALSE, body |-> <<>>]

\* mutant: the header carries the clock in milliseconds
OrderRequest_HeaderMillis(address, creds, order, t) ==
    LET timestamp == EpochSeconds(t)
        body      == JSON_stringify(order)
        signature == generateSignature(creds.secret, POST, PathOrder, timestamp, JSString(body))
    IN  [method |-> POST, path |-> PathOrder,
         headers |-> getBrowserHeaders(address, creds.apiKey, creds.passphrase, t, signature),
         hasBody |-> TRUE, body |-> body]

\* mutant: the order is serialized again for the wire, with the funder as maker
OrderRequest_Reserialized(address, creds, order, t) ==
    LET timestamp == EpochSeconds(t)
        body      == JSON_stringify(order)
        signature == generateSignature(creds.secret, POST, PathOrder, timestamp, JSString(body))
    IN  [method |-> POST, path |-> PathOrder,
         headers |-> getBrowserHeaders(address, creds.apiKey, creds.passphrase, timestamp, signature),
         hasBody |-> TRUE, body |-> JSON_stringify([side |-> address])]

\* the request attemptTrade sends at clock reading t
OrderRequest(address, creds, order, t) ==
    LET timestamp == EpochSeconds(t)
        body      == JSON_stringify(order)
        signature == generateSignature(creds.secret, POST, PathOrder, timestamp, JSString(body))
    IN  [method |-> POST, path |-> PathOrder,
         headers |-> getBrowserHeaders(address, creds.apiKey, creds.passphrase, timestamp, signature),
         hasBody |-> TRUE, body |-> body]

\* mutant: the preimage carries the clock in milliseconds
StatusRequest_PreimageMillis(address, creds, t) ==
    LET timestamp == EpochSeconds(t)
        signature == generateSignature(creds.secret, GET, PathBanStatus, t, JSUndefined)
        headers   == getBrowserHeaders(address, creds.apiKey, creds.passphrase, timestamp, signature)
    IN  [method |-> GET, path |-> PathBanStatus,
         headers |-> [headers EXCEPT !.ContentType = Undefined],
         hasBody |-> FALSE, body |-> <<>>]

\* the request checkTradingStatus sends at clock reading t (body defaults to '')
StatusRequest(address, creds, t) ==
    LET timestamp == EpochSeconds(t)
        signature == generateSignature(creds.secret, GET, PathBanStatus, timestamp, JSUndefined)
        headers   == getBrowserHeaders(address, creds.apiKey, creds.passphrase, timestamp, signature)
    IN  [method |-> GET, path |-> PathBanStatus,
         headers |-> [headers EXCEPT !.ContentType = Undefined],
         hasBody |-> FALSE, body |-> <<>>]

\* credential values
Key1    == <<"k", "e", "y", "-", "0", "0", "1">>
Secret1 == <<"s", "-", "_", "1">>
Pass1   == <<"p", "a", "s", "s", "1">>
Key2    == <<"k", "2">>
Secret2 == <<"c", "2", "V", "j">>
Pass2   == <<"p", "w", "2">>

\* the apiKey, secret and passphrase arguments
TradeCredentials == { [apiKey |-> Key1, secret |-> Secret1, passphrase |-> Pass1],
                      [apiKey |-> Key2, secret |-> Secret2, passphrase |-> Pass2] }

\* the signedOrder argument
SignedOrders == { [side |-> <<"B", "U", "Y">>], [side |-> <<"S", "E", "L", "L">>] }

Owners == { <<"0", "x", "A", "a">>, <<"0", "x", "a", "a">>, <<"0", "x", "B", "b">> }

Funders == {JSUndefined, JSNull, JSString(<<>>)} \cup {JSString(a) : a \in Owners}

NoResult == [success |-> FALSE, hasData |-> FALSE, data |-> JSONNull,
             error |-> Undefined, status |-> 0]
NoReturn == [pending |-> TRUE]

\* the entries of `wire'
NoUpstream == [kind |-> "none", status |-> 0, text |-> ""]
Post(address, creds, order, t) ==
    [e |-> "POST", address |-> address, resp |-> NoUpstream, status |-> 0,
     req |-> OrderRequest(address, creds, order, t)]
Answer(resp, r) ==
    [e |-> "answer", address |-> <<>>, resp |-> resp, status |-> r.status, req |-> NoRequest]
TimerSet ==
    [e |-> "setTimeout", address |-> <<>>, resp |-> NoUpstream, status |-> 0, req |-> NoRequest]
TimerFired ==
    [e |-> "timeout", address |-> <<>>, resp |-> NoUpstream, status |-> 0, req |-> NoRequest]

\* executeTrade is called: the first attemptTrade signs and POSTs with the owner.
\* Calls share no state, so one call at a time shows every behaviour of a call.
executeTrade(owner, funder, creds, order) ==
    /\ ownerAddress' = owner
    /\ funderAddress' = funder
    /\ credentials' = creds
    /\ signedOrder' = order
    /\ wire' = <<Post(owner, creds, order, now)>>
    /\ pc' = "attempt1"
    /\ result' = NoResult
    /\ ret' = NoReturn

\* a call with arguments of the caller's choice
Call ==
    /\ pc = "idle"
    /\ \E owner \in Owners, funder \in Funders, creds \in TradeCredentials, order \in SignedOrders :
          executeTrade(owner, funder, creds, order)
    /\ UNCHANGED check
    /\ UNCHANGED otherThanTrade

\* the first attempt resolves; executeTrade either returns or starts the backoff
FirstAnswer ==
    /\ pc = "attempt1"
    /\ \E resp \in Responses :
          LET r    == attemptTrade(resp)
              next == AfterAttempt(pc, r, ownerAddress, funderAddress)
          IN  /\ result' = r
              /\ pc' = next
              /\ IF next = "backoff"
                 THEN /\ wire' = wire \o <<Answer(resp, r), TimerSet>>
                      /\ ret' = ret
                 ELSE /\ wire' = Append(wire, Answer(resp, r))
                      /\ ret' = TradeReturn(r, AttemptedWith(FALSE))
    /\ UNCHANGED <<ownerAddress, funderAddress, credentials, signedOrder, check>>
    /\ UNCHANGED otherThanTrade

\* the 350 ms timer fires; the second attemptTrade signs and POSTs
\* executeTrade taking the credentials of the retry from the table again
Backoff_RereadsRow ==
    /\ pc = "backoff"
    /\ LET userId == tradeRoute.req.body.userId
           creds  == IF userId \in DOMAIN db
                     THEN [apiKey |-> db[userId].api_key, secret |-> db[userId].secret,
                           passphrase |-> db[userId].passphrase]
                     ELSE credentials
       IN  wire' = wire \o <<TimerFired, Post(RetryAddress(ownerAddress, funderAddress),
                                             creds, signedOrder, now)>>
    /\ pc' = "attempt2"
    /\ UNCHANGED <<ownerAddress, funderAddress, result, ret, credentials, signedOrder, check>>
    /\ UNCHANGED otherThanTrade

Backoff ==
    /\ pc = "backoff"
    /\ wire' = wire \o <<TimerFired, Post(RetryAddress(ownerAddress, funderAddress),
                                          credentials, signedOrder, now)>>
    /\ pc' = "attempt2"
    /\ UNCHANGED <<ownerAddress, funderAddress, result, ret, credentials, signedOrder, check>>
    /\ UNCHANGED otherThanTrade

\* the second attempt resolves
SecondAnswer ==
    /\ pc = "attempt2"
    /\ \E resp \in Responses :
          LET r    == attemptTrade(resp)
              next == AfterAttempt(pc, r, ownerAddress, funderAddress)
          IN  /\ result' = r
              /\ pc' = next
              /\ IF next = "backoff"
                 THEN /\ wire' = wire \o <<Answer(resp, r), TimerSet>>
                      /\ ret' = ret
                 ELSE /\ wire' = Append(wire, Answer(resp, r))
                      /\ ret' = TradeReturn(r, AttemptedWith(TRUE))
    /\ UNCHANGED <<ownerAddress, funderAddress, credentials, signedOrder, check>>
    /\ UNCHANGED otherThanTrade

\* the caller has the returned value; the next call may start
Return ==
    /\ pc = "done"
    /\ pc' = "idle"
    /\ UNCHANGED <<ownerAddress, funderAddress, wire, result, ret, credentials, signedOrder, check>>
    /\ UNCHANGED otherThanTrade

NextTrade == Call \/ FirstAnswer \/ Backoff \/ SecondAnswer \/ Return

(***************************************************************************)
(* checkTradingStatus                                                      *)
(***************************************************************************)
\* what the ban-status endpoint answers
StatusTexts == {"{\"closedOnly\":true}", "{\"closedOnly\":false}", "{}", "null", "<html>blocked</html>"}

StatusResponses ==
    [kind : {"response"}, status : {200, 403}, text : StatusTexts]
        \cup {[kind |-> "exception", status |-> 0, text |-> "fetch failed"]}

\* `Status check failed: ${response.status}`
StatusCheckFailed(status) == <<"Status check failed: ", status>>

\* checkTradingStatus reporting the flag itself instead of its negation
StatusReturnOf_FlagAsIs(resp) ==
    IF resp.kind = "exception"
    THEN [tradingEnabled |-> FALSE, closedOnly |-> Undefined, error |-> <<resp.text>>]
    ELSE IF ~ResponseOk(resp.status)
    THEN [tradingEnabled |-> FALSE, closedOnly |-> Undefined,
          error |-> StatusCheckFailed(resp.status)]
    ELSE [tradingEnabled |-> resp.text = "{\"closedOnly\":true}",
          closedOnly |-> Undefined, error |-> <<>>]

\* the value checkTradingStatus returns for an answer; response.json() throws on
\* a body that is not JSON, data.closedOnly throws on null, and the catch turns
\* either into {tradingEnabled: false, error}
StatusReturnOf(resp) ==
    IF resp.kind = "exception"
    THEN [tradingEnabled |-> FALSE, closedOnly |-> Undefined, error |-> <<resp.text>>]
    ELSE IF ~ResponseOk(resp.status)
    THEN [tradingEnabled |-> FALSE, closedOnly |-> Undefined,
          error |-> StatusCheckFailed(resp.status)]
    ELSE CASE resp.text = "{\"closedOnly\":true}" ->
                [tradingEnabled |-> FALSE, closedOnly |-> "true", error |-> <<>>]
           [] resp.text = "{\"closedOnly\":false}" ->
                [tradingEnabled |-> TRUE, closedOnly |-> "false", error |-> <<>>]
           [] resp.text = "{}" ->
                [tradingEnabled |-> TRUE, closedOnly |-> Undefined, error |-> <<>>]
           [] resp.text = "null" ->
                [tradingEnabled |-> FALSE, closedOnly |-> Undefined,
                 error |-> <<"Cannot read properties of null (reading 'closedOnly')">>]
           [] OTHER ->
                [tradingEnabled |-> FALSE, closedOnly |-> Undefined,
                 error |-> <<"Unexpected token < in JSON at position 0">>]

NoStatusAnswer == [kind |-> "none", status |-> 0, text |-> ""]

NoCredentials == [apiKey |-> <<>>, secret |-> <<>>, passphrase |-> <<>>]
NoOrder       == [side |-> <<>>]

\* checkTradingStatus is called: it signs and sends the GET
CheckTradingStatus ==
    /\ check.pc = "idle"
    /\ \E address \in Owners, creds \in TradeCredentials :
          check' = [pc |-> "waiting", req |-> StatusRequest(address, creds, now),
                    fetches |-> <<StatusRequest(address, creds, now)>>,
                    answer |-> NoStatusAnswer, ret |-> NoReturn]
    /\ UNCHANGED <<pc, ownerAddress, funderAddress, wire, result, ret, credentials, signedOrder>>
    /\ UNCHANGED otherThanTrade

\* the GET resolves or throws; checkTradingStatus returns
StatusAnswer ==
    /\ check.pc = "waiting"
    /\ \E resp \in StatusResponses :
          check' = [check EXCEPT !.pc = "done", !.answer = resp, !.ret = StatusReturnOf(resp)]
    /\ UNCHANGED <<pc, ownerAddress, funderAddress, wire, result, ret, credentials, signedOrder>>
    /\ UNCHANGED otherThanTrade

\* the caller has the returned value; the next call may start
StatusReturn ==
    /\ check.pc = "done"
    /\ check' = [check EXCEPT !.pc = "idle"]
    /\ UNCHANGED <<pc, ownerAddress, funderAddress, wire, result, ret, credentials, signedOrder>>
    /\ UNCHANGED otherThanTrade

NextStatus == CheckTradingStatus \/ StatusAnswer \/ StatusReturn

(***************************************************************************)
(* Properties of executeTrade                                              *)
(***************************************************************************)
\* the order POSTs and the answers of the current call, in order
Posts   == SelectSeq(wire, LAMBDA ev : ev.e = "POST")
Answers == SelectSeq(wire, LAMBDA ev : ev.e = "answer")

\* two characters that differ at most in letter case
SameLetter(c, d) ==
    \/ c = d
    \/ {c, d} \in {{"a", "A"}, {"b", "B"}, {"c", "C"}, {"d", "D"}, {"e", "E"}, {"f", "F"}}

\* two addresses that are equal ignoring letter case
SameIgnoringCase(a, b) ==
    /\ Len(a) = Len(b)
    /\ \A i \in 1..Len(a) : SameLetter(a[i], b[i])

\* a funder address is configured and is not the owner's
FunderDistinct ==
    /\ funderAddress.type = "string"
    /\ funderAddress.chars # <<>>
    /\ ~SameIgnoringCase(funderAddress.chars, ownerAddress)

\* the exchange answered the n-th POST with this HTTP status
HttpStatusIs(n, status) ==
    /\ Len(Answers) >= n
    /\ Answers[n].resp.kind = "response"
    /\ Answers[n].resp.status = status

\* the exchange answered the n-th POST with 2xx and a body holding a non-empty orderID
HttpOkWithOrderId(n) ==
    /\ Len(Answers) >= n
    /\ Answers[n].resp.kind = "response"
    /\ Answers[n].resp.status \in 200..299
    /\ ~JSON_parse(Answers[n].resp.text).throws
    /\ JSON_parse(Answers[n].resp.text).value.type = "object"
    /\ JSON_parse(Answers[n].resp.text).value.orderID \notin {Undefined, ""}

\* the retry happened in the order the code prescribes
RetryInOrder ==
    /\ Len(wire) >= 5
    /\ wire[1].e = "POST" /\ wire[1].address = ownerAddress
    /\ wire[2].e = "answer"
    /\ wire[3].e = "setTimeout"
    /\ wire[4].e = "timeout"
    /\ wire[5].e = "POST" /\ wire[5].address = funderAddress.chars

\* C1: when the exchange answers the owner attempt with HTTP 403 and a funder
\* address distinct from the owner (ignoring case) is given, the call issues
\* exactly one further POST, after the answer and after the backoff timer has
\* fired, and that POST carries the funder address, not the owner's.
C1_RetryOnHttp403 ==
    (pc = "done" /\ HttpStatusIs(1, 403) /\ FunderDistinct) =>
        /\ Len(Posts) = 2
        /\ RetryInOrder
        /\ Posts[2].address = funderAddress.chars
        /\ Posts[2].address # ownerAddress

\* C2: when the exchange answers the owner attempt with HTTP 403 and the funder
\* is undefined, null, empty or the owner's address up to letter case, there is
\* no second POST and the call returns the 403 as a failure with
\* attemptedWith = "owner".
C2_NoRetryWithoutFunder ==
    (pc = "done" /\ HttpStatusIs(1, 403) /\ ~FunderDistinct) =>
        /\ Len(Posts) = 1
        /\ ret.success = FALSE
        /\ ret.status = 403
        /\ ret.attemptedWith = "owner"

\* C3: when the first attempt ends with anything but HTTP 403 (another status,
\* or no response at all), there is no funder retry even with a distinct
\* funder, and the value returned is the one built from the first attempt
\* (its success, and on failure the status that attempt reported).
C3_NoRetryOnOtherStatus ==
    (pc = "done" /\ ~HttpStatusIs(1, 403)) =>
        /\ Len(Posts) = 1
        /\ Len(Answers) = 1
        /\ ret.attemptedWith = "owner"
        /\ ret.success = HttpOkWithOrderId(1)
        /\ ~ret.success => ret.status = Answers[1].status

C3_Witness ==
    /\ pc = "done"
    /\ HttpStatusIs(1, 500)
    /\ FunderDistinct
    /\ Len(Posts) = 1

\* C4: the call returns success = true exactly when the last attempt's response
\* was 2xx and its parsed body holds a non-empty orderID, and then orderId is
\* that id; otherwise it returns success = false, a non-empty error string and
\* no orderId.
C4_SuccessIffOkAndOrderId ==
    pc = "done" =>
        /\ ret.success = HttpOkWithOrderId(Len(Answers))
        /\ ret.success =>
              /\ ret.orderId = JSON_parse(Answers[Len(Answers)].resp.text).value.orderID
              /\ "error" \notin DOMAIN ret
        /\ ~ret.success =>
              /\ "error" \in DOMAIN ret
              /\ ret.error \notin {Undefined, ""}
              /\ "orderId" \notin DOMAIN ret

C4_Witness ==
    /\ pc = "done"
    /\ HttpStatusIs(Len(Answers), 200)
    /\ ~HttpOkWithOrderId(Len(Answers))
    /\ ret.success = FALSE
    /\ ret.error = "Trade failed"

\* C5: every returned value carries attemptedWith; it is "funder" exactly when
\* the funder POST was issued, and then the value is built from the funder
\* attempt's answer; otherwise it is "owner".
C5_AttemptedWith ==
    pc = "done" =>
        /\ "attemptedWith" \in DOMAIN ret
        /\ ret.attemptedWith \in {"owner", "funder"}
        /\ (ret.attemptedWith = "funder") = (Len(Posts) = 2)
        /\ (ret.attemptedWith = "owner") = (Len(Posts) = 1)
        /\ Len(Answers) = Len(Posts)
        /\ ret.success = HttpOkWithOrderId(Len(Posts))
        /\ Posts[Len(Posts)].address =
              IF ret.attemptedWith = "funder" THEN funderAddress.chars ELSE ownerAddress

C5_Witness ==
    /\ pc = "done"
    /\ ret.attemptedWith = "funder"
    /\ ret.success = FALSE
    /\ Len(Posts) = 2

\* C6: a call issues at most two POSTs, the first with the owner address and
\* the second, if any, with the funder address; once the funder attempt has
\* been answered, whatever the answer, the call is over.
C6_AtMostTwoPosts ==
    /\ Len(Posts) <= 2
    /\ Len(Posts) >= 1 => Posts[1].address = ownerAddress
    /\ Len(Posts) = 2 => Posts[2].address = funderAddress.chars
    /\ Len(Answers) = 2 => pc \in {"done", "idle"}
    /\ pc = "backoff" => Len(Posts) = 1

C6_Witness ==
    /\ pc = "done"
    /\ Len(Posts) = 2
    /\ HttpStatusIs(1, 403)
    /\ HttpStatusIs(2, 403)

\* C7: when the owner attempt was answered 403, the funder is distinct and the
\* funder attempt is answered 2xx with order id X, the call returns exactly
\* {success: true, orderId: X, attemptedWith: "funder"}, with no error and no
\* status.
C7_FunderSuccess ==
    (pc = "done" /\ HttpStatusIs(1, 403) /\ FunderDistinct /\ HttpOkWithOrderId(2)) =>
        ret = [success |-> TRUE,
               orderId |-> JSON_parse(Answers[2].resp.text).value.orderID,
               attemptedWith |-> "funder"]

C7_Witness ==
    /\ pc = "done"
    /\ ownerAddress = <<"0", "x", "A", "a">>
    /\ funderAddress = JSString(<<"0", "x", "B", "b">>)
    /\ HttpStatusIs(1, 403)
    /\ ret = [success |-> TRUE, orderId |-> "ord-123", attemptedWith |-> "funder"]

(***************************************************************************)
(* middleware/auth.js: rateLimiter and the periodic clean-up               *)
(***************************************************************************)
RATE_LIMIT_WINDOW == 60 * 1000
RATE_LIMIT_MAX_REQUESTS == 10

MaxTicks == 2

\* how far the clock moves between two events, in milliseconds
TickSteps == {1, 30500, 59999}

UserIds == {"u1"}

\* the user ids that have a window: those of UserIds and one more
RateUserIds == UserIds \cup {"u2"}

\* req.body.userId: a user id, or a missing / empty one
UserIdInputs == UserIds \cup {Undefined, ""}

\* one key for every user
UserKey_Shared(userId) == <<"ratelimit:", "">>

\* `ratelimit:${userId}`
UserKey(userId) == <<"ratelimit:", userId>>

\* Math.ceil(a / b) for b > 0
Ceil(a, b) == -((-a) \div b)

\* mutant: the window is compared in seconds against a difference in milliseconds
InWindow_Seconds(timestamp, t) == t - timestamp < RATE_LIMIT_WINDOW \div 1000

\* mutant: a timestamp exactly one window old still counts
InWindow_Inclusive(timestamp, t) == t - timestamp <= RATE_LIMIT_WINDOW

\* requests.filter(timestamp => now - timestamp < RATE_LIMIT_WINDOW)
InWindow(timestamp, t) == t - timestamp < RATE_LIMIT_WINDOW

FilterRequests(requests, t) == SelectSeq(requests, LAMBDA timestamp : InWindow(timestamp, t))

\* rateLimitMap.get(userKey) || []
GetRequests(map, key) == IF key \in DOMAIN map THEN map[key] ELSE <<>>

\* rateLimitMap.set(key, value)
MapSet(map, key, value) == [k \in DOMAIN map \cup {key} |-> IF k = key THEN value ELSE map[k]]

\* mutant: the limit is compared with > instead of >=
LimitExceeded_OffByOne(requests) == Len(requests) > RATE_LIMIT_MAX_REQUESTS

\* requests.length >= RATE_LIMIT_MAX_REQUESTS
LimitExceeded(requests) == Len(requests) >= RATE_LIMIT_MAX_REQUESTS

\* the hint rounded down to whole seconds
RetryAfter_Floor(requests, t) == (RATE_LIMIT_WINDOW - (t - requests[1])) \div 1000

\* Math.ceil((RATE_LIMIT_WINDOW - (now - oldestRequest)) / 1000)
RetryAfter(requests, t) == Ceil(RATE_LIMIT_WINDOW - (t - requests[1]), 1000)

NoResponse == [kind |-> "none", status |-> 0, userId |-> Undefined, retryAfter |-> 0,
               remaining |-> 0]

\* Date.now() advances; the wall clock is taken to be non-decreasing, and time
\* is counted from the moment the module is loaded
Tick ==
    /\ ticks < MaxTicks
    /\ \E d \in TickSteps : now' = now + d
    /\ ticks' = ticks + 1
    /\ UNCHANGED <<rateLimitMap, res, admitted, fresh, hinted>>
    /\ UNCHANGED otherThanRate

\* the last RATE_LIMIT_MAX_REQUESTS + 1 entries of a history
Recent(history) ==
    IF Len(history) <= RATE_LIMIT_MAX_REQUESTS + 1 THEN history
    ELSE SubSeq(history, Len(history) - RATE_LIMIT_MAX_REQUESTS, Len(history))

\* the earliest of the times the user was told to come back at
Hinted(earlier, at) == IF earlier = 0 \/ at < earlier THEN at ELSE earlier

\* W has elapsed since the last admitted request of the user (or none was admitted)
Recovered(history, t) == history = <<>> \/ t - history[Len(history)] >= RATE_LIMIT_WINDOW

\* the middleware recording the timestamp of a request it rejects with 429
rateLimiter_RecordsRejected(userId) ==
    IF ~Truthy(userId)
    THEN /\ res' = [kind |-> "rejected", status |-> 400, userId |-> userId,
                    retryAfter |-> 0, remaining |-> 0]
         /\ UNCHANGED <<now, ticks, rateLimitMap, admitted, fresh, hinted>>
    ELSE /\ LET userKey  == UserKey(userId)
                requests == FilterRequests(GetRequests(rateLimitMap, userKey), now)
            IN  /\ rateLimitMap' = MapSet(rateLimitMap, userKey, Append(requests, now))
                /\ IF LimitExceeded(requests)
                   THEN /\ res' = [kind |-> "rejected", status |-> 429, userId |-> userId,
                                   retryAfter |-> RetryAfter(requests, now),
                                   remaining |-> 0]
                        /\ hinted' = [hinted EXCEPT ![userId] =
                                         Hinted(@, now + RetryAfter(requests, now) * 1000)]
                        /\ UNCHANGED admitted
                   ELSE /\ res' = [kind |-> "next", status |-> 0, userId |-> userId,
                                   retryAfter |-> 0,
                                   remaining |-> RATE_LIMIT_MAX_REQUESTS - (Len(requests) + 1)]
                        /\ admitted' = [admitted EXCEPT ![userId] = Recent(Append(@, now))]
                        /\ hinted' = [hinted EXCEPT ![userId] = 0]
         /\ fresh' = [fresh EXCEPT ![userId] =
                         IF Recovered(admitted[userId], now) THEN 1
                         ELSE IF @ > RATE_LIMIT_MAX_REQUESTS THEN @ ELSE @ + 1]
         /\ UNCHANGED <<now, ticks>>

\* rateLimiter(req, res, next): what the middleware does to its own state.  A
\* request without userId gets 400 and nothing else happens.
rateLimiter(userId) ==
    IF ~Truthy(userId)
    THEN /\ res' = [kind |-> "rejected", status |-> 400, userId |-> userId,
                    retryAfter |-> 0, remaining |-> 0]
         /\ UNCHANGED <<now, ticks, rateLimitMap, admitted, fresh, hinted>>
    ELSE /\ LET userKey  == UserKey(userId)
                requests == FilterRequests(GetRequests(rateLimitMap, userKey), now)
            IN  IF LimitExceeded(requests)
                THEN /\ res' = [kind |-> "rejected", status |-> 429, userId |-> userId,
                                retryAfter |-> RetryAfter(requests, now),
                                remaining |-> 0]
                     /\ hinted' = [hinted EXCEPT ![userId] =
                                      Hinted(@, now + RetryAfter(requests, now) * 1000)]
                     /\ UNCHANGED <<rateLimitMap, admitted>>
                ELSE /\ rateLimitMap' = MapSet(rateLimitMap, userKey, Append(requests, now))
                     /\ res' = [kind |-> "next", status |-> 0, userId |-> userId,
                                retryAfter |-> 0,
                                remaining |-> RATE_LIMIT_MAX_REQUESTS - (Len(requests) + 1)]
                     /\ admitted' = [admitted EXCEPT ![userId] = Recent(Append(@, now))]
                     /\ hinted' = [hinted EXCEPT ![userId] = 0]
         /\ fresh' = [fresh EXCEPT ![userId] =
                         IF Recovered(admitted[userId], now) THEN 1
                         ELSE IF @ > RATE_LIMIT_MAX_REQUESTS THEN @ ELSE @ + 1]
         /\ UNCHANGED <<now, ticks>>

\* the middleware on a request that carries no userId
RateLimiterMissingUserId ==
    /\ \E userId \in UserIdInputs : ~Truthy(userId) /\ rateLimiter(userId)
    /\ UNCHANGED otherThanRate

\* the middleware on a request that carries a userId
RateLimiter(userId) ==
    /\ Truthy(userId)
    /\ rateLimiter(userId)
    /\ UNCHANGED otherThanRate

\* the callback keeping the keys whose lists it has emptied
SweptMap_KeepsEmpty(map, t) == [key \in DOMAIN map |-> FilterRequests(map[key], t)]

\* the setInterval callback: what it leaves in the map.  The timer may fire
\* between any two handlers, so Sweep is enabled in every state.
SweptMap(map, t) ==
    LET kept == {key \in DOMAIN map : FilterRequests(map[key], t) # <<>>}
    IN  [key \in kept |-> FilterRequests(map[key], t)]

Sweep ==
    /\ rateLimitMap' = SweptMap(rateLimitMap, now)
    /\ UNCHANGED <<now, ticks, res, admitted, fresh, hinted>>
    /\ UNCHANGED otherThanRate

\* a rejected caller lets the retryAfter seconds it was given go by: the clock
\* reaches the time the hint pointed at
WaitRetryAfter ==
    /\ ticks < MaxTicks
    /\ \E userId \in UserIds :
          /\ hinted[userId] > now
          /\ now' = hinted[userId]
    /\ ticks' = ticks + 1
    /\ UNCHANGED <<rateLimitMap, res, admitted, fresh, hinted>>
    /\ UNCHANGED otherThanRate

NextRate ==
    \/ Tick
    \/ RateLimiterMissingUserId
    \/ \E userId \in UserIds : RateLimiter(userId)
    \/ Sweep

(***************************************************************************)
(* Properties of the rate limiter                                          *)
(***************************************************************************)
\* how many timestamps of a history lie within the window that ends at t
InWindowCount(history, t) ==
    Cardinality({i \in DOMAIN history : t - history[i] < RATE_LIMIT_WINDOW})

\* C8: once RATE_LIMIT_MAX_REQUESTS (10) requests of a userId have been admitted
\* within the last RATE_LIMIT_WINDOW (60 s), the next request of that userId is
\* answered 429 with a retryAfter that is a positive whole number of seconds.
C8_RejectsAfterLimit ==
    [][ \A userId \in UserIds :
          (RateLimiter(userId)
             /\ InWindowCount(admitted[userId], now) >= RATE_LIMIT_MAX_REQUESTS)
          => /\ res'.kind = "rejected"
             /\ res'.status = 429
             /\ res'.userId = userId
             /\ res'.retryAfter \in Nat
             /\ res'.retryAfter >= 1 ]_vars

C8_Witness ==
    /\ res.status = 429
    /\ res.userId = "u1"
    /\ res.retryAfter = 1
    /\ InWindowCount(admitted["u1"], now) = RATE_LIMIT_MAX_REQUESTS

\* C9: once RATE_LIMIT_WINDOW has elapsed since the last admitted request of a
\* userId (or none was ever admitted), the next RATE_LIMIT_MAX_REQUESTS requests
\* of that userId are all admitted, whether or not a sweep ran in between.
C9_RecoversAfterWindow ==
    [][ \A userId \in UserIds :
          (RateLimiter(userId) /\ fresh'[userId] <= RATE_LIMIT_MAX_REQUESTS)
          => /\ res'.kind = "next"
             /\ res'.userId = userId ]_vars

C9_Witness ==
    /\ res.kind = "next"
    /\ res.userId = "u1"
    /\ fresh["u1"] = RATE_LIMIT_MAX_REQUESTS
    /\ Len(admitted["u1"]) = RATE_LIMIT_MAX_REQUESTS + 1
    /\ admitted["u1"][2] - admitted["u1"][1] >= RATE_LIMIT_WINDOW

\* C10: a request of userId u at time t is admitted exactly when fewer than
\* RATE_LIMIT_MAX_REQUESTS of u's earlier admitted timestamps are younger than
\* RATE_LIMIT_WINDOW at t; an admitted request leaves in the map u's timestamps
\* younger than the window followed by the single new timestamp t, a rejected
\* one leaves the map alone; so no RATE_LIMIT_MAX_REQUESTS + 1 admitted
\* timestamps of one userId ever lie less than RATE_LIMIT_WINDOW apart.
C10_SlidingWindow ==
    /\ [][ \A userId \in UserIds :
             RateLimiter(userId)
             => /\ (res'.kind = "next")
                      = (InWindowCount(admitted[userId], now) < RATE_LIMIT_MAX_REQUESTS)
                /\ res'.kind = "next" =>
                      /\ UserKey(userId) \in DOMAIN rateLimitMap'
                      /\ Len(rateLimitMap'[UserKey(userId)])
                            = InWindowCount(admitted[userId], now) + 1
                      /\ rateLimitMap'[UserKey(userId)][Len(rateLimitMap'[UserKey(userId)])]
                            = now
                      /\ \A i \in 1..InWindowCount(admitted[userId], now) :
                            rateLimitMap'[UserKey(userId)][i]
                               = admitted[userId][Len(admitted[userId])
                                                  - InWindowCount(admitted[userId], now) + i]
                /\ res'.kind # "next" => rateLimitMap' = rateLimitMap ]_vars
    /\ [](\A userId \in UserIds :
             \A i, j \in DOMAIN admitted[userId] :
                j - i >= RATE_LIMIT_MAX_REQUESTS
                => admitted[userId][j] - admitted[userId][i] >= RATE_LIMIT_WINDOW)

C10_Witness ==
    /\ Len(admitted["u1"]) = RATE_LIMIT_MAX_REQUESTS + 1
    /\ admitted["u1"][RATE_LIMIT_MAX_REQUESTS + 1] - admitted["u1"][1] = RATE_LIMIT_WINDOW
    /\ admitted["u1"][RATE_LIMIT_MAX_REQUESTS + 1] - admitted["u1"][2] = 1
    /\ res.kind = "next"

\* every timestamp of the list is at least one window old at t
AllExpired(requests, t) ==
    \A i \in DOMAIN requests : t - requests[i] >= RATE_LIMIT_WINDOW

\* C31: right after a sweep every key left in the map holds a non-empty list of
\* timestamps that are all younger than RATE_LIMIT_WINDOW, and every key whose
\* timestamps were all at least that old is gone from the map.
C31_SweepLeavesLiveWindows ==
    [][ Sweep
        => /\ \A key \in DOMAIN rateLimitMap' :
                 /\ rateLimitMap'[key] # <<>>
                 /\ \A i \in DOMAIN rateLimitMap'[key] :
                       now - rateLimitMap'[key][i] < RATE_LIMIT_WINDOW
           /\ \A key \in DOMAIN rateLimitMap :
                 AllExpired(rateLimitMap[key], now) => key \notin DOMAIN rateLimitMap' ]_vars

\* a sweep has removed the key of u2 and shortened the list of u1
C31_Witness ==
    /\ admitted["u2"] # <<>>
    /\ UserKey("u2") \notin DOMAIN rateLimitMap
    /\ UserKey("u1") \in DOMAIN rateLimitMap
    /\ Len(rateLimitMap[UserKey("u1")]) < Len(admitted["u1"])
    /\ ~AllExpired(rateLimitMap[UserKey("u1")], now)

\* the timestamp is recorded under the key in the map
Recorded(map, key, timestamp) ==
    /\ key \in DOMAIN map
    /\ \E j \in DOMAIN map[key] : map[key][j] = timestamp

\* C32: however admission checks of the same or of different users and
\* sweeps follow one another, every admitted timestamp of a user that is
\* younger than RATE_LIMIT_WINDOW is recorded under the user's key, and no
\* step removes from the map a timestamp that is younger than the window.
C32_UnexpiredNeverLost ==
    /\ [](\A userId \in RateUserIds :
             \A i \in DOMAIN admitted[userId] :
                now - admitted[userId][i] < RATE_LIMIT_WINDOW
                => Recorded(rateLimitMap, UserKey(userId), admitted[userId][i]))
    /\ [][ \A key \in DOMAIN rateLimitMap :
              \A i \in DOMAIN rateLimitMap[key] :
                 now - rateLimitMap[key][i] < RATE_LIMIT_WINDOW
                 => Recorded(rateLimitMap', key, rateLimitMap[key][i]) ]_vars

\* u1 keeps an earlier timestamp that is still young after a sweep removed its
\* expired one, u2 came back after its key was swept, and u1 was admitted again
C32_Witness ==
    /\ Len(admitted["u2"]) = 2
    /\ Len(admitted["u1"]) = 3
    /\ Recorded(rateLimitMap, UserKey("u2"), admitted["u2"][2])
    /\ UserKey("u1") \in DOMAIN rateLimitMap
    /\ Len(rateLimitMap[UserKey("u1")]) = 2
    /\ rateLimitMap[UserKey("u1")][1] = admitted["u1"][2]
    /\ admitted["u2"][2] <= admitted["u1"][3]
    /\ res.userId = "u1"
    /\ now - admitted["u1"][1] >= RATE_LIMIT_WINDOW

\* a step of the middleware, on any request
LimiterStep == RateLimiterMissingUserId \/ \E userId \in UserIds : RateLimiter(userId)

\* C33: a request the middleware rejects, with 429 or with 400 for a missing
\* userId, leaves the map and the admitted timestamps as they were; a user
\* rejected again is never told to wait longer than it was told before.
C33_RejectionLeavesMap ==
    /\ [][ (LimiterStep /\ res'.kind = "rejected")
            => /\ res'.status \in {400, 429}
               /\ rateLimitMap' = rateLimitMap
               /\ admitted' = admitted ]_vars
    /\ [][ \A userId \in UserIds :
              (/\ RateLimiter(userId)
               /\ res.status = 429 /\ res.userId = userId
               /\ res'.status = 429)
              => res'.retryAfter <= res.retryAfter ]_vars

\* u1 is rejected half a window after its ten admitted requests
C33_Witness ==
    /\ res.status = 429
    /\ res.userId = "u1"
    /\ res.retryAfter = 30
    /\ UserKey("u1") \in DOMAIN rateLimitMap
    /\ Len(rateLimitMap[UserKey("u1")]) = RATE_LIMIT_MAX_REQUESTS
    /\ rateLimitMap[UserKey("u1")][1] = 0

\* C34: an admission check for userId u reads and writes only u's entry: the
\* entries and the admitted timestamps of every other user stay as they were,
\* and u is admitted exactly when fewer than RATE_LIMIT_MAX_REQUESTS of u's own
\* admitted timestamps are younger than the window, whatever others have done.
C34_WindowsIndependent ==
    [][ \A userId \in RateUserIds :
          RateLimiter(userId)
          => /\ \A key \in (DOMAIN rateLimitMap \cup DOMAIN rateLimitMap')
                            \ {UserKey(userId)} :
                   /\ key \in DOMAIN rateLimitMap
                   /\ key \in DOMAIN rateLimitMap'
                   /\ rateLimitMap'[key] = rateLimitMap[key]
             /\ \A other \in RateUserIds \ {userId} : admitted'[other] = admitted[other]
             /\ (res'.kind = "next")
                   = (InWindowCount(admitted[userId], now) < RATE_LIMIT_MAX_REQUESTS) ]_vars

\* u2 is admitted while u1 has used up its window
C34_Witness ==
    /\ res.kind = "next"
    /\ res.userId = "u2"
    /\ admitted["u2"][Len(admitted["u2"])] = now
    /\ InWindowCount(admitted["u1"], now) = RATE_LIMIT_MAX_REQUESTS
    /\ fresh["u1"] > RATE_LIMIT_MAX_REQUESTS

\* C35: on every rejection with 429 retryAfter is a whole number of seconds
\* from 1 to RATE_LIMIT_WINDOW / 1000 (60); a request of the same userId made
\* retryAfter seconds after a rejection, or later, with no request of that
\* userId admitted since the rejection, is admitted.
C35_RetryAfterSound ==
    /\ [][ \A userId \in UserIds :
              (RateLimiter(userId) /\ res'.status = 429)
              => /\ res'.retryAfter >= 1
                 /\ res'.retryAfter <= RATE_LIMIT_WINDOW \div 1000 ]_vars
    /\ [][ \A userId \in UserIds :
              (RateLimiter(userId) /\ hinted[userId] > 0 /\ now >= hinted[userId])
              => /\ res'.kind = "next"
                 /\ res'.userId = userId ]_vars

\* u1, rejected one millisecond after its ten requests and told to wait 60
\* seconds, asks again exactly 60 seconds later and is admitted
C35_Witness ==
    /\ now = 1 + RATE_LIMIT_WINDOW
    /\ res.kind = "next"
    /\ res.userId = "u1"
    /\ Len(admitted["u1"]) = RATE_LIMIT_MAX_REQUESTS + 1
    /\ admitted["u1"][RATE_LIMIT_MAX_REQUESTS + 1] = now
    /\ admitted["u1"][1] = 0

(***************************************************************************)
(* src/server.js: the relay with the in-memory credential store            *)
(***************************************************************************)
ENV       == "prod"
RELAY_KEY == "relay-key"

\* mutant: the key is built from the address as given
rowKey_AsGiven(eoa) == <<"polymarket:", ENV, ":">> \o eoa

\* `polymarket:${ENV}:${String(eoa).toLowerCase()}`
rowKey(eoa) == <<"polymarket:", ENV, ":">> \o toLowerCase(eoa)

\* String(Math.floor(Date.now() / 1000))
tsSec(t) == Decimal(EpochSeconds(t))

B64Alphabet ==
    {"A", "B", "C", "D", "E", "F", "G", "H", "I", "J", "K", "L", "M", "N", "O", "P", "Q", "R",
    "S", "T", "U", "V", "W", "X", "Y", "Z", "a", "b", "c", "d", "e", "f", "g", "h", "i", "j",
    "k", "l", "m", "n", "o", "p", "q", "r", "s", "t", "u", "v", "w", "x", "y", "z", "0", "1",
    "2", "3", "4", "5", "6", "7", "8", "9", "+", "/"}

\* /^[A-Za-z0-9+/]+={0,2}$/.test(s || "")
isB64(str) ==
    \E pad \in 0..2 :
        /\ Len(str) > pad
        /\ \A i \in 1..Len(str) :
              IF i > Len(str) - pad THEN str[i] = "=" ELSE str[i] \in B64Alphabet

\* the digest of server.js: the key is the decoded secret when the secret looks
\* like standard base64 and its UTF-8 bytes otherwise
hmacB64(secret, pre) ==
    [hmac |-> "sha256",
     keyBytes |-> [encoding |-> IF isB64(secret) THEN "base64" ELSE "utf8", of |-> secret],
     message |-> pre]

\* s.slice(-n)
SliceLast(str, n) == IF Len(str) <= n THEN str ELSE SubSeq(str, Len(str) - n + 1, Len(str))

\* a body after `up = await r.text(); try { up = JSON.parse(up); } catch {}':
\* the parsed value, or the text itself when it is not JSON
Absent == [type |-> "undefined", text |-> "", key |-> JSUndefined, secret |-> JSUndefined,
           passphrase |-> JSUndefined]
RawText(text) == [Absent EXCEPT !.type = "string", !.text = text]
Parsed(text)  == [Absent EXCEPT !.type = "object", !.text = text]
ParsedNull    == [Absent EXCEPT !.type = "null", !.text = "null"]

ApiKeyFull1  == "{\"key\":\"key-001\",\"secret\":\"s-_1\",\"passphrase\":\"pass1\"}"
ApiKeyFull2  == "{\"key\":\"k2\",\"secret\":\"c2Vj\",\"passphrase\":\"pw2\"}"
ApiKeyNoPass == "{\"key\":\"key-001\",\"secret\":\"s-_1\"}"
ApiKeyError  == "{\"error\":\"Invalid L1 Request headers\"}"
HtmlBlocked  == "<html>blocked</html>"

ParseOrKeep(text) ==
    CASE text = ApiKeyFull1 ->
            [Parsed(text) EXCEPT !.key = JSString(Key1), !.secret = JSString(Secret1),
                                 !.passphrase = JSString(Pass1)]
      [] text = ApiKeyFull2 ->
            [Parsed(text) EXCEPT !.key = JSString(Key2), !.secret = JSString(Secret2),
                                 !.passphrase = JSString(Pass2)]
      [] text = ApiKeyNoPass ->
            [Parsed(text) EXCEPT !.key = JSString(Key1), !.secret = JSString(Secret1)]
      [] text = "null" -> ParsedNull
      [] text = HtmlBlocked -> RawText(text)
      [] text = "" -> RawText(text)
      [] OTHER -> Parsed(text)

\* what the exchange answers to a fetch of server.js
RelayStatuses == {200, 403}
ApiKeyTexts   == {ApiKeyFull1, ApiKeyFull2, ApiKeyNoPass, ApiKeyError, "null", HtmlBlocked}
OtherTexts    == {"{\"closed_only\":false}", HtmlBlocked}
FetchThrows   == [kind |-> "exception", status |-> 0, text |-> "fetch failed"]
ApiKeyResponses == [kind : {"response"}, status : RelayStatuses, text : ApiKeyTexts] \cup {FetchThrows}
OtherResponses  == [kind : {"response"}, status : RelayStatuses, text : OtherTexts] \cup {FetchThrows}

\* the locals `r' and `up'
NoUp == [status |-> 0, value |-> Absent]
UpOf(resp) == [status |-> resp.status, value |-> ParseOrKeep(resp.text)]

\* the entries of `rwire'
Fetch(req)       == [e |-> "fetch", req |-> req, status |-> 0, text |-> ""]
Answered(resp)   == [e |-> "answer", req |-> NoRequest, status |-> resp.status, text |-> resp.text]
Threw            == [e |-> "threw", req |-> NoRequest, status |-> 0, text |-> ""]
Outcome(resp)    == IF resp.kind = "exception" THEN Threw ELSE Answered(resp)

\* the JSON bodies server.js responds with; a key that is not set is absent
NoSent    == [keySfx |-> <<>>, passSfx |-> <<>>, ts |-> <<>>, pre |-> <<>>]
EmptyBody == [ok |-> FALSE, error |-> Undefined, message |-> Undefined, where |-> Undefined,
              upstream |-> Absent, accessStatus |-> Absent, sent |-> NoSent, status |-> 0,
              owner |-> <<>>, keySuffix |-> <<>>, passSuffix |-> <<>>]
NoReply   == [status |-> 0, body |-> EmptyBody]
Respond(status, body) == [status |-> status, body |-> body]

Unauthorized == Respond(401, [EmptyBody EXCEPT !.error = "Unauthorized relay"])
RelayCrash(message) == Respond(500, [EmptyBody EXCEPT !.error = "RelayCrash", !.message = message])
NoCreds == Respond(400, [EmptyBody EXCEPT !.error = "No creds for EOA"])
Sent(key, pass, ts, pre) ==
    [keySfx |-> SliceLast(key, 6), passSfx |-> SliceLast(pass, 4), ts |-> ts, pre |-> pre]

\* okRelay accepting any x-relay-key header that is present
okRelay_AnyKey(req) == req.relayKey # Undefined

\* okRelay: req.headers["x-relay-key"] !== RELAY_KEY
okRelay(req) == req.relayKey = RELAY_KEY
RelayKeys == {RELAY_KEY, "wrong-key", Undefined}

NoRelayRequest == [route |-> "none", relayKey |-> Undefined]

(***************************************************************************)
(* POST /polymarket/auth-create                                            *)
(***************************************************************************)
PathCreate == <<"/", "a", "u", "t", "h", "/", "a", "p", "i", "-", "k", "e", "y">>
PathDerive == <<"/", "a", "u", "t", "h", "/", "d", "e", "r", "i", "v", "e", "-", "a", "p", "i", "-", "k", "e", "y">>
PathAccess == <<"/", "a", "u", "t", "h", "/", "a", "c", "c", "e", "s", "s", "-", "s", "t", "a", "t", "u", "s", "?", "a", "d", "d", "r", "e", "s", "s", "=">>

\* the request body as express.json leaves it; an absent key is undefined
AuthBody(address, timestamp, nonce, eip712Signature) ==
    [address |-> address, timestamp |-> timestamp, nonce |-> nonce,
     eip712Signature |-> eip712Signature]

AuthBodies ==
    {AuthBody(JSString(a), "1700000000", Undefined, "0xsig") : a \in Owners}
        \cup {AuthBody(JSString(<<"0", "x", "B", "b">>), "1700000000", "3", "0xsig"),
              AuthBody(JSUndefined, "1700000000", Undefined, "0xsig"),
              AuthBody(JSString(<<"0", "x", "A", "a">>), Undefined, Undefined, "0xsig"),
              AuthBody(JSString(<<"0", "x", "A", "a">>), "1700000000", Undefined, Undefined),
              AuthBody(JSUndefined, Undefined, Undefined, Undefined)}

\* !address || !timestamp || !eip712Signature
MissingL1Inputs(body) ==
    ~TruthyValue(body.address) \/ ~Truthy(body.timestamp) \/ ~Truthy(body.eip712Signature)

\* the L1 headers; nonce defaults to 0
L1(body) ==
    [contentType |-> "application/json", accept |-> "application/json",
     POLY_ADDRESS |-> body.address.chars, POLY_SIGNATURE |-> body.eip712Signature,
     POLY_TIMESTAMP |-> body.timestamp,
     POLY_NONCE |-> IF body.nonce = Undefined THEN "0" ELSE body.nonce]

CreateRequest(body) ==
    [method |-> POST, path |-> PathCreate, headers |-> L1(body), hasBody |-> TRUE,
     body |-> <<"{", "}">>]
\* mutant: the derive request carries a proof with the next nonce
DeriveRequest_NextNonce(body) ==
    [method |-> GET, path |-> PathDerive, headers |-> [L1(body) EXCEPT !.POLY_NONCE = "1"],
     hasBody |-> FALSE, body |-> <<>>]

DeriveRequest(body) ==
    [method |-> GET, path |-> PathDerive, headers |-> L1(body), hasBody |-> FALSE, body |-> <<>>]
AccessRequest(body) ==
    [method |-> GET, path |-> PathAccess \o body.address.chars, headers |-> <<>>,
     hasBody |-> FALSE, body |-> <<>>]

\* mutant: the header carries the clock in milliseconds
VerifyRequest_HeaderMillis(eoa, key, secret, passphrase, t) ==
    LET ts  == tsSec(t)
        pre == GET \o PathApiKeys \o ts
    IN  [method |-> GET, path |-> PathApiKeys,
         headers |-> [accept |-> "application/json", POLY_ADDRESS |-> eoa, POLY_API_KEY |-> key,
                      POLY_PASSPHRASE |-> passphrase, POLY_TIMESTAMP |-> Decimal(t),
                      POLY_SIGNATURE |-> hmacB64(secret, pre)],
         hasBody |-> FALSE, body |-> <<>>]

\* the inline verify request, signed at clock reading t
VerifyRequest(eoa, key, secret, passphrase, t) ==
    LET ts  == tsSec(t)
        pre == GET \o PathApiKeys \o ts
    IN  [method |-> GET, path |-> PathApiKeys,
         headers |-> [accept |-> "application/json", POLY_ADDRESS |-> eoa, POLY_API_KEY |-> key,
                      POLY_PASSPHRASE |-> passphrase, POLY_TIMESTAMP |-> ts,
                      POLY_SIGNATURE |-> hmacB64(secret, pre)],
         hasBody |-> FALSE, body |-> <<>>]

\* mutant: the combined failure leaves the access-status result out
DeriveFailed_NoAccessStatus(status, upstream, accessStatus) ==
    Respond(status, [EmptyBody EXCEPT !.where = "derive", !.upstream = upstream])

\* mutant: a failed verify is reported as a relay-side failure
VerifyFailed_AsBadGateway(status, upstream, key, passphrase, ts, pre) ==
    Respond(502, [EmptyBody EXCEPT !.where = "verify", !.upstream = upstream,
                                   !.sent = Sent(key, passphrase, ts, pre)])

MissingInputs == Respond(400, [EmptyBody EXCEPT !.error = "Missing L1 inputs"])
DeriveFailed(status, upstream, accessStatus) ==
    Respond(status, [EmptyBody EXCEPT !.where = "derive", !.upstream = upstream,
                                      !.accessStatus = accessStatus])
Malformed(upstream) ==
    Respond(502, [EmptyBody EXCEPT !.error = "Malformed API-key response", !.upstream = upstream])
VerifyFailed(status, upstream, key, passphrase, ts, pre) ==
    Respond(status, [EmptyBody EXCEPT !.where = "verify", !.upstream = upstream,
                                      !.sent = Sent(key, passphrase, ts, pre)])
Stored(eoa, key, passphrase) ==
    Respond(200, [EmptyBody EXCEPT !.ok = TRUE, !.owner = eoa, !.keySuffix = SliceLast(key, 6),
                                   !.passSuffix = SliceLast(passphrase, 4)])

\* mutant: a response with key and secret is taken as complete
MalformedApiKey_SecretOnly(value) ==
    ~TruthyValue(value.key) \/ ~TruthyValue(value.secret)

\* const { key, secret, passphrase } = up || {}; !key || !secret || !passphrase
MalformedApiKey(value) ==
    ~TruthyValue(value.key) \/ ~TruthyValue(value.secret) \/ ~TruthyValue(value.passphrase)

\* the row STORE.set writes
Row(eoa, key, secret, passphrase) ==
    [key |-> key, secret |-> secret, pass |-> passphrase, owner |-> toLowerCase(eoa)]

\* Map.set
StoreSet(store, k, row) == [x \in DOMAIN store \cup {k} |-> IF x = k THEN row ELSE store[x]]

\* the request arrives: the relay key and the inputs are checked and the create
\* request is sent
AuthCreate ==
    /\ rpc = "idle"
    /\ \E relayKey \in RelayKeys, body \in AuthBodies :
          LET req == [route |-> "auth-create", relayKey |-> relayKey, body |-> body]
          IN  /\ rreq' = req
              /\ IF ~okRelay(req)
                 THEN rpc' = "done" /\ reply' = Unauthorized /\ rwire' = <<>>
                 ELSE IF MissingL1Inputs(body)
                 THEN rpc' = "done" /\ reply' = MissingInputs /\ rwire' = <<>>
                 ELSE rpc' = "create" /\ reply' = NoReply
                        /\ rwire' = <<Fetch(CreateRequest(body))>>
    /\ up' = NoUp
    /\ UNCHANGED <<STORE, tradeVars, rateVars, credVars, signVars, routeVars>>

\* lines 74-92, after an OK answer to create or derive: the malformed check,
\* then the verify request
AfterApiKey(resp) ==
    LET value == ParseOrKeep(resp.text)
        eoa   == rreq.body.address.chars
    IN  IF MalformedApiKey(value)
        THEN /\ rpc' = "done"
             /\ reply' = Malformed(value)
             /\ rwire' = Append(rwire, Answered(resp))
        ELSE /\ rpc' = "verify"
             /\ reply' = reply
             /\ rwire' = rwire \o <<Answered(resp),
                                    Fetch(VerifyRequest(eoa, value.key.chars, value.secret.chars,
                                                        value.passphrase.chars, now))>>

\* the create request resolves or throws
CreateAnswer ==
    /\ rpc = "create"
    /\ \E resp \in ApiKeyResponses :
          IF resp.kind = "exception"
          THEN rpc' = "done" /\ reply' = RelayCrash(resp.text) /\ rwire' = Append(rwire, Threw)
                 /\ up' = up
          ELSE /\ up' = UpOf(resp)
               /\ IF ~ResponseOk(resp.status)
                  THEN /\ rpc' = "derive"
                       /\ reply' = reply
                       /\ rwire' = rwire \o <<Answered(resp), Fetch(DeriveRequest(rreq.body))>>
                  ELSE AfterApiKey(resp)
    /\ UNCHANGED <<STORE, rreq, tradeVars, rateVars, credVars, signVars, routeVars>>

\* the derive request resolves or throws
DeriveAnswer ==
    /\ rpc = "derive"
    /\ \E resp \in ApiKeyResponses :
          IF resp.kind = "exception"
          THEN rpc' = "done" /\ reply' = RelayCrash(resp.text) /\ rwire' = Append(rwire, Threw)
                 /\ up' = up
          ELSE /\ up' = UpOf(resp)
               /\ IF ~ResponseOk(resp.status)
                  THEN /\ rpc' = "access"
                       /\ reply' = reply
                       /\ rwire' = rwire \o <<Answered(resp), Fetch(AccessRequest(rreq.body))>>
                  ELSE AfterApiKey(resp)
    /\ UNCHANGED <<STORE, rreq, tradeVars, rateVars, credVars, signVars, routeVars>>

\* the access-status query resolves or throws
AccessAnswer ==
    /\ rpc = "access"
    /\ \E resp \in OtherResponses :
          /\ rwire' = Append(rwire, Outcome(resp))
          /\ reply' = IF resp.kind = "exception"
                      THEN RelayCrash(resp.text)
                      ELSE DeriveFailed(up.status, up.value, ParseOrKeep(resp.text))
    /\ rpc' = "done"
    /\ UNCHANGED <<STORE, rreq, up, tradeVars, rateVars, credVars, signVars, routeVars>>

\* the verify request resolves or throws; on an OK answer the tuple is stored
VerifyAnswer ==
    /\ rpc = "verify"
    /\ \E resp \in OtherResponses :
          LET eoa  == rreq.body.address.chars
              key  == up.value.key.chars
              pass == up.value.passphrase.chars
              sent == rwire[Len(rwire)].req
          IN  /\ rwire' = Append(rwire, Outcome(resp))
              /\ IF resp.kind = "exception"
                 THEN reply' = RelayCrash(resp.text) /\ STORE' = STORE
                 ELSE IF ~ResponseOk(resp.status)
                 THEN /\ reply' = VerifyFailed(resp.status, ParseOrKeep(resp.text), key, pass,
                                               sent.headers.POLY_TIMESTAMP,
                                               sent.headers.POLY_SIGNATURE.message)
                      /\ STORE' = STORE
                 ELSE /\ STORE' = StoreSet(STORE, rowKey(eoa),
                                           Row(eoa, key, up.value.secret.chars, pass))
                      /\ reply' = Stored(eoa, key, pass)
    /\ rpc' = "done"
    /\ UNCHANGED <<rreq, up, tradeVars, rateVars, credVars, signVars, routeVars>>

\* the caller has the response and the handler's locals are gone; the next
\* request may be handled
RelayReturn ==
    /\ rpc = "done"
    /\ rpc' = "idle"
    /\ rreq' = NoRelayRequest
    /\ up' = NoUp
    /\ rwire' = <<>>
    /\ reply' = NoReply
    /\ UNCHANGED <<STORE, tradeVars, rateVars, credVars, signVars, routeVars>>


(***************************************************************************)
(* Properties of POST /polymarket/auth-create                              *)
(***************************************************************************)
\* the answer at position i of the fetches and answers of the attempt
AnsweredAt(w, i)  == Len(w) >= i /\ w[i].e = "answer"
RejectedAt(w, i)  == AnsweredAt(w, i) /\ ~ResponseOk(w[i].status)
AcceptedAt(w, i)  == AnsweredAt(w, i) /\ ResponseOk(w[i].status)

\* create is the first fetch and derive the second: their answers are the
\* second and the fourth entry
BothRejected(w) == RejectedAt(w, 2) /\ RejectedAt(w, 4)

\* C11 as claimed: when the create request is rejected and the derive request is
\* rejected too, the attempt ends with a failure response tagged where =
\* "derive" that carries the derive request's status and body together with the
\* access-status result, and nothing is written to the credential store.
C11_AsClaimed ==
    [][ (rreq.route = "auth-create" /\ BothRejected(rwire') /\ rpc' = "done")
            => /\ reply'.body.where = "derive"
               /\ reply'.status = rwire'[4].status
               /\ reply'.body.upstream = ParseOrKeep(rwire'[4].text)
               /\ STORE' = STORE ]_vars

\* C11: when the create request is rejected, the derive request is rejected too
\* and the access-status query is answered, the attempt ends with a failure
\* response tagged where = "derive" that carries the derive request's status and
\* body together with the access-status body; when the access-status query
\* fails at the network level the attempt ends with the 500 RelayCrash response;
\* in both cases no step of the attempt writes to the credential store.
C11_DeriveFailure ==
    [][ /\ (rreq.route = "auth-create" /\ BothRejected(rwire') /\ rpc' = "done")
            => /\ STORE' = STORE
               /\ AnsweredAt(rwire', 6)
                    => /\ reply'.status = rwire'[4].status
                       /\ reply'.body.ok = FALSE
                       /\ reply'.body.where = "derive"
                       /\ reply'.body.upstream = ParseOrKeep(rwire'[4].text)
                       /\ reply'.body.accessStatus = ParseOrKeep(rwire'[6].text)
               /\ ~AnsweredAt(rwire', 6)
                    => /\ reply'.status = 500
                       /\ reply'.body.error = "RelayCrash"
                       /\ reply'.body.where = Undefined
        /\ (rpc' \in {"create", "derive", "access"}) => STORE' = STORE ]_vars

\* an attempt ended with the combined failure, with a row already in the store
C11_Witness ==
    /\ rpc = "done"
    /\ rreq.route = "auth-create"
    /\ BothRejected(rwire)
    /\ AnsweredAt(rwire, 6)
    /\ reply.status = 403
    /\ reply.body.where = "derive"
    /\ reply.body.upstream.type = "object"
    /\ reply.body.accessStatus.type = "object"
    /\ STORE # <<>>

\* the last entry of the fetches and answers
LastOf(w) == w[Len(w)]

\* the verify request was sent: the answer before it was OK and complete
VerifySent(w) == Len(w) >= 3 /\ w[Len(w) - 1].e = "fetch" /\ w[Len(w) - 1].req.path = PathApiKeys

\* C12: when create or derive succeeds with a complete {key, secret,
\* passphrase} but the verify request returns a non-OK status, the attempt ends
\* with a failure response tagged where = "verify" carrying the verify
\* request's status and body, and no step of the attempt changes the
\* credential store.
C12_VerifyFailure ==
    [][ /\ (rpc = "verify" /\ LastOf(rwire').e = "answer" /\ ~ResponseOk(LastOf(rwire').status))
            => /\ rpc' = "done"
               /\ reply'.status = LastOf(rwire').status
               /\ reply'.body.ok = FALSE
               /\ reply'.body.where = "verify"
               /\ reply'.body.upstream = ParseOrKeep(LastOf(rwire').text)
               /\ STORE' = STORE
        /\ (rpc' = "verify") => STORE' = STORE ]_vars

\* a verify was rejected while the store holds another tuple for that owner
C12_Witness ==
    /\ rpc = "done"
    /\ rreq.route = "auth-create"
    /\ VerifySent(rwire)
    /\ RejectedAt(rwire, Len(rwire))
    /\ reply.status = 403
    /\ reply.body.where = "verify"
    /\ rowKey(rreq.body.address.chars) \in DOMAIN STORE
    /\ STORE[rowKey(rreq.body.address.chars)].key # up.value.key.chars

\* an address without upper-case hexadecimal letters
IsLowerCase(a) == \A i \in DOMAIN a : a[i] \notin {"A", "B", "C", "D", "E", "F"}

\* the values a create or derive answer carries
TupleOf(answer) ==
    LET value == ParseOrKeep(answer.text)
    IN  [key |-> value.key, secret |-> value.secret, passphrase |-> value.passphrase]

\* C13: every entry of STORE is keyed by the lowercased owner address; the only
\* step that changes STORE is the one that receives an OK answer to the verify
\* request of a provisioning attempt, and it writes, under the key of that
\* attempt's address, the key, secret and passphrase that the attempt's OK
\* create or derive answer carried, leaving every other entry as it was.
C13_StoreWrittenOnVerifyOk ==
    [][ /\ \A k \in DOMAIN STORE' :
              /\ IsLowerCase(STORE'[k].owner)
              /\ k = <<"polymarket:", ENV, ":">> \o STORE'[k].owner
        /\ (STORE' # STORE)
              => /\ rpc = "verify"
                 /\ rreq.route = "auth-create"
                 /\ okRelay(rreq)
                 /\ AcceptedAt(rwire', Len(rwire'))
                 /\ AcceptedAt(rwire, Len(rwire) - 1)
                 /\ LET owner  == toLowerCase(rreq.body.address.chars)
                        k      == <<"polymarket:", ENV, ":">> \o owner
                        issued == TupleOf(rwire[Len(rwire) - 1])
                    IN  /\ DOMAIN STORE' = DOMAIN STORE \cup {k}
                        /\ \A x \in DOMAIN STORE : x # k => STORE'[x] = STORE[x]
                        /\ STORE'[k].owner = owner
                        /\ JSString(STORE'[k].key) = issued.key
                        /\ JSString(STORE'[k].secret) = issued.secret
                        /\ JSString(STORE'[k].pass) = issued.passphrase ]_vars

\* the tuple a derive answer carried was stored for an address given in mixed
\* case, in place of a different tuple stored earlier
C13_Witness ==
    /\ rpc = "done"
    /\ rreq.route = "auth-create"
    /\ rreq.body.address.chars = <<"0", "x", "A", "a">>
    /\ AcceptedAt(rwire, 4)
    /\ AcceptedAt(rwire, 6)
    /\ reply.body.ok
    /\ DOMAIN STORE = {<<"polymarket:", ENV, ":", "0", "x", "a", "a">>,
                       <<"polymarket:", ENV, ":", "0", "x", "b", "b">>}
    /\ STORE[<<"polymarket:", ENV, ":", "0", "x", "a", "a">>].key = Key2
    /\ STORE[<<"polymarket:", ENV, ":", "0", "x", "b", "b">>].key = Key1

\* the fetches of the attempt, by endpoint
IsFetchOf(ev, path) ==
    /\ ev.e = "fetch"
    /\ Len(ev.req.path) >= Len(path)
    /\ SubSeq(ev.req.path, 1, Len(path)) = path
CreateFetches(w) == {i \in DOMAIN w : IsFetchOf(w[i], PathCreate) /\ w[i].req.method = POST}
DeriveFetches(w) == {i \in DOMAIN w : IsFetchOf(w[i], PathDerive)}
AccessFetches(w) == {i \in DOMAIN w : IsFetchOf(w[i], PathAccess)}

\* C14: in one provisioning attempt the create request is issued at most once
\* and first; the derive request is issued at most once, only after create was
\* rejected and with the same L1 proof headers; the access-status query is
\* issued only after both were rejected; no create or derive request follows a
\* derive failure.
C14_OneShotFallback ==
    (rreq.route = "auth-create") =>
        /\ CreateFetches(rwire) \subseteq {1}
        /\ (rwire # <<>>) => CreateFetches(rwire) = {1}
        /\ DeriveFetches(rwire) \subseteq {3}
        /\ \A i \in DeriveFetches(rwire) :
              /\ RejectedAt(rwire, 2)
              /\ rwire[i].req.headers = rwire[1].req.headers
        /\ AccessFetches(rwire) \subseteq {5}
        /\ \A i \in AccessFetches(rwire) : BothRejected(rwire)
        /\ \A i \in DOMAIN rwire :
              (i > 4 /\ 3 \in DeriveFetches(rwire) /\ ~AcceptedAt(rwire, 4))
                  => i \notin CreateFetches(rwire) \cup DeriveFetches(rwire)

\* create and derive were rejected with a proof that carries a nonce, and the
\* access-status query was sent
C14_Witness ==
    /\ rreq.route = "auth-create"
    /\ rwire # <<>>
    /\ rwire[1].req.headers.POLY_NONCE = "3"
    /\ CreateFetches(rwire) = {1}
    /\ DeriveFetches(rwire) = {3}
    /\ AccessFetches(rwire) = {5}
    /\ Len(rwire) = 6

\* a create or derive answer whose body lacks one of key, secret, passphrase
Incomplete(answer) ==
    \/ ~TruthyValue(TupleOf(answer).key)
    \/ ~TruthyValue(TupleOf(answer).secret)
    \/ ~TruthyValue(TupleOf(answer).passphrase)

\* C15: when create or derive returns an OK status but the body lacks any of
\* key, secret or passphrase, the attempt ends with HTTP 502 and the error
\* 'Malformed API-key response'; no verify request and no further create or
\* derive request is issued, and the credential store is not written.
C15_MalformedEnds ==
    [][ (/\ rpc \in {"create", "derive"}
         /\ Len(rwire') > Len(rwire)
         /\ AcceptedAt(rwire', Len(rwire) + 1)
         /\ Incomplete(rwire'[Len(rwire) + 1]))
            => /\ rpc' = "done"
               /\ reply'.status = 502
               /\ reply'.body.ok = FALSE
               /\ reply'.body.error = "Malformed API-key response"
               /\ rwire' = Append(rwire, rwire'[Len(rwire) + 1])
               /\ STORE' = STORE ]_vars

\* a derive answer was OK without a passphrase and the attempt ended with 502
C15_Witness ==
    /\ rpc = "done"
    /\ rreq.route = "auth-create"
    /\ Len(rwire) = 4
    /\ AcceptedAt(rwire, 4)
    /\ rwire[4].text = ApiKeyNoPass
    /\ reply.status = 502
    /\ STORE # <<>>

(***************************************************************************)
(* GET /polymarket/l2-sanity and POST /polymarket/order                    *)
(***************************************************************************)
\* String(v || "")
StringOrEmpty(v) == IF TruthyValue(v) THEN v.chars ELSE <<>>

\* STORE.has(rowKey(eoa))
HasRow(eoa) == rowKey(eoa) \in DOMAIN STORE

\* the { ok, status, upstream, sent } body of the two routes
Relayed(resp, key, pass, ts, pre) ==
    Respond(resp.status, [EmptyBody EXCEPT !.ok = ResponseOk(resp.status), !.status = resp.status,
                                           !.upstream = ParseOrKeep(resp.text),
                                           !.sent = Sent(key, pass, ts, pre)])

\* the ban-status request of l2-sanity, signed at clock reading t
SanityRequest(eoa, row, t) ==
    LET ts  == tsSec(t)
        pre == GET \o PathBanStatus \o ts
    IN  [method |-> GET, path |-> PathBanStatus,
         headers |-> [accept |-> "application/json", POLY_ADDRESS |-> eoa,
                      POLY_API_KEY |-> row.key, POLY_PASSPHRASE |-> row.pass,
                      POLY_TIMESTAMP |-> ts, POLY_SIGNATURE |-> hmacB64(row.secret, pre)],
         hasBody |-> FALSE, body |-> <<>>]

\* the request bodies of /polymarket/order as express.json leaves them
RelayOrderBodies ==
    {[address |-> a, side |-> sd] :
        a \in {JSString(<<"0", "x", "A", "a">>), JSString(<<"0", "x", "B", "b">>), JSUndefined},
        sd \in {<<"B", "U", "Y">>}}

\* JSON.stringify(req.body); a key whose value is undefined is left out
JSON_stringify_body(body) ==
    <<"{">>
        \o (IF body.address.type = "undefined" THEN <<>>
            ELSE Quote(<<"a", "d", "d", "r", "e", "s", "s">>) \o <<":">> \o Quote(body.address.chars) \o <<",">>)
        \o Quote(<<"s", "i", "d", "e">>) \o <<":">> \o Quote(body.side) \o <<"}">>

\* mutant: the parsed body is serialized again for the wire, without the address
RelayOrderRequest_Reserialized(eoa, row, body, t) ==
    LET ts  == tsSec(t)
        pre == POST \o PathOrder \o ts \o body
    IN  [method |-> POST, path |-> PathOrder,
         headers |-> [accept |-> "application/json", contentType |-> "application/json",
                      POLY_ADDRESS |-> eoa, POLY_API_KEY |-> row.key,
                      POLY_PASSPHRASE |-> row.pass, POLY_TIMESTAMP |-> ts,
                      POLY_SIGNATURE |-> hmacB64(row.secret, pre)],
         hasBody |-> TRUE, body |-> JSON_stringify([side |-> <<"B", "U", "Y">>])]

\* the order request of /polymarket/order, signed at clock reading t
RelayOrderRequest(eoa, row, body, t) ==
    LET ts  == tsSec(t)
        pre == POST \o PathOrder \o ts \o body
    IN  [method |-> POST, path |-> PathOrder,
         headers |-> [accept |-> "application/json", contentType |-> "application/json",
                      POLY_ADDRESS |-> eoa, POLY_API_KEY |-> row.key,
                      POLY_PASSPHRASE |-> row.pass, POLY_TIMESTAMP |-> ts,
                      POLY_SIGNATURE |-> hmacB64(row.secret, pre)],
         hasBody |-> TRUE, body |-> body]

\* l2-sanity arrives: the relay key is checked, the row is read and the
\* ban-status request is sent
Sanity ==
    /\ rpc = "idle"
    /\ \E relayKey \in RelayKeys, address \in {JSString(a) : a \in Owners} \cup {JSUndefined} :
          LET req == [route |-> "l2-sanity", relayKey |-> relayKey, body |-> [address |-> address]]
              eoa == StringOrEmpty(address)
          IN  /\ rreq' = req
              /\ IF ~okRelay(req)
                 THEN rpc' = "done" /\ reply' = Unauthorized /\ rwire' = <<>>
                 ELSE IF ~HasRow(eoa)
                 THEN rpc' = "done" /\ reply' = NoCreds /\ rwire' = <<>>
                 ELSE rpc' = "sanity" /\ reply' = NoReply
                        /\ rwire' = <<Fetch(SanityRequest(eoa, STORE[rowKey(eoa)], now))>>
    /\ up' = NoUp
    /\ UNCHANGED <<STORE, tradeVars, rateVars, credVars, signVars, routeVars>>

\* /polymarket/order arrives: the relay key is checked, the row is read and the
\* order is signed and sent
Order ==
    /\ rpc = "idle"
    /\ \E relayKey \in RelayKeys, body \in RelayOrderBodies :
          LET req == [route |-> "order", relayKey |-> relayKey, body |-> body]
              eoa == StringOrEmpty(body.address)
          IN  /\ rreq' = req
              /\ IF ~okRelay(req)
                 THEN rpc' = "done" /\ reply' = Unauthorized /\ rwire' = <<>>
                 ELSE IF ~HasRow(eoa)
                 THEN rpc' = "done" /\ reply' = NoCreds /\ rwire' = <<>>
                 ELSE rpc' = "relayed" /\ reply' = NoReply
                        /\ rwire' = <<Fetch(RelayOrderRequest(eoa, STORE[rowKey(eoa)],
                                                              JSON_stringify_body(body), now))>>
    /\ up' = NoUp
    /\ UNCHANGED <<STORE, tradeVars, rateVars, credVars, signVars, routeVars>>

\* the request of l2-sanity or of order resolves or throws; `row', `ts' and
\* `pre' are the locals the request was built from
RelayedAnswer ==
    /\ rpc \in {"sanity", "relayed"}
    /\ \E resp \in OtherResponses :
          LET sent == rwire[Len(rwire)].req.headers
          IN  /\ rwire' = Append(rwire, Outcome(resp))
              /\ reply' = IF resp.kind = "exception"
                          THEN RelayCrash(resp.text)
                          ELSE Relayed(resp, sent.POLY_API_KEY, sent.POLY_PASSPHRASE,
                                       sent.POLY_TIMESTAMP, sent.POLY_SIGNATURE.message)
    /\ rpc' = "done"
    /\ UNCHANGED <<STORE, rreq, up, tradeVars, rateVars, credVars, signVars, routeVars>>

NextRelay ==
    \/ AuthCreate \/ CreateAnswer \/ DeriveAnswer \/ AccessAnswer \/ VerifyAnswer
    \/ Sanity \/ Order \/ RelayedAnswer \/ RelayReturn


(***************************************************************************)
(* src/routes/polymarket.js: the credentials routes and the table          *)
(* user_credentials of src/db/init.js                                      *)
(***************************************************************************)
CredUserIds == {"u1", "u2"}

\* new Date().toISOString() and the CURRENT_TIMESTAMP of the database
ISOString(t)         == <<"ISO-8601", t>>
CURRENT_TIMESTAMP(t) == <<"timestamp", EpochSeconds(t)>>

\* the request bodies of POST /credentials; an absent key is undefined
CredBody(userId, apiKey, secret, passphrase, walletAddress, funder) ==
    [userId |-> userId, apiKey |-> apiKey, secret |-> secret, passphrase |-> passphrase,
     walletAddress |-> walletAddress, funderAddress |-> funder]

WalletA == JSString(<<"0", "x", "A", "a">>)
WalletB == JSString(<<"0", "x", "B", "b">>)

CredBodies ==
    {CredBody(u, JSString(Key1), JSString(Secret1), JSString(Pass1), WalletA, WalletB) :
        u \in CredUserIds}
      \cup {CredBody(u, JSString(Key2), JSString(Secret2), JSString(Pass2), WalletB, f) :
              u \in CredUserIds, f \in {JSUndefined, JSString(<<>>)}}
      \cup {CredBody(Undefined, JSString(Key1), JSString(Secret1), JSString(Pass1), WalletA, WalletB),
            CredBody("u1", JSUndefined, JSString(Secret1), JSString(Pass1), WalletA, WalletB),
            CredBody("u1", JSString(Key1), JSString(<<>>), JSString(Pass1), WalletA, WalletB),
            CredBody("u1", JSString(Key1), JSString(Secret1), JSUndefined, WalletA, WalletB),
            CredBody("u1", JSString(Key1), JSString(Secret1), JSString(Pass1), JSUndefined, WalletB)}

\* mutant: the passphrase is not among the required fields
MissingRequiredFields_NoPassphrase(body) ==
    \/ ~Truthy(body.userId)
    \/ ~TruthyValue(body.apiKey)
    \/ ~TruthyValue(body.secret)
    \/ ~TruthyValue(body.walletAddress)

\* !userId || !apiKey || !secret || !passphrase || !walletAddress
MissingRequiredFields(body) ==
    \/ ~Truthy(body.userId)
    \/ ~TruthyValue(body.apiKey)
    \/ ~TruthyValue(body.secret)
    \/ ~TruthyValue(body.passphrase)
    \/ ~TruthyValue(body.walletAddress)

\* funderAddress || null
OrNull(v) == IF TruthyValue(v) THEN v ELSE JSNull

\* mutant: an update leaves the funder address of the row when none is supplied
Upsert_KeepFunder(table, body, t, postgres) ==
    LET u   == body.userId
        old == u \in DOMAIN table
        row == [api_key |-> body.apiKey.chars, secret |-> body.secret.chars,
                passphrase |-> body.passphrase.chars,
                wallet_address |-> body.walletAddress.chars,
                funder_address |-> IF old /\ ~TruthyValue(body.funderAddress)
                                   THEN table[u].funder_address
                                   ELSE OrNull(body.funderAddress),
                created_at |-> IF old /\ postgres THEN table[u].created_at
                               ELSE CURRENT_TIMESTAMP(t),
                updated_at |-> ISOString(t)]
    IN  [x \in DOMAIN table \cup {u} |-> IF x = u THEN row ELSE table[x]]

\* the INSERT ... ON CONFLICT (user_id) DO UPDATE of PostgreSQL and the INSERT OR
\* REPLACE of SQLite: the first keeps created_at of an existing row, the second
\* writes a new row with the default created_at
Upsert(table, body, t, postgres) ==
    LET u   == body.userId
        old == u \in DOMAIN table
        row == [api_key |-> body.apiKey.chars, secret |-> body.secret.chars,
                passphrase |-> body.passphrase.chars,
                wallet_address |-> body.walletAddress.chars,
                funder_address |-> OrNull(body.funderAddress),
                created_at |-> IF old /\ postgres THEN table[u].created_at
                               ELSE CURRENT_TIMESTAMP(t),
                updated_at |-> ISOString(t)]
    IN  [x \in DOMAIN table \cup {u} |-> IF x = u THEN row ELSE table[x]]

\* mutant: the DELETE has no WHERE clause
Delete_All(table, userId) == <<>>

\* DELETE FROM user_credentials WHERE user_id = ?
Delete(table, userId) == [x \in DOMAIN table \ {userId} |-> table[x]]

\* the responses of the credentials routes; a key that is not set is absent
EmptyCredBody == [success |-> FALSE, error |-> Undefined, userId |-> Undefined,
                  walletAddress |-> <<>>, funderAddress |-> JSUndefined,
                  hasCredentials |-> FALSE, createdAt |-> <<>>]
NoCredBody    == CredBody(Undefined, JSUndefined, JSUndefined, JSUndefined, JSUndefined, JSUndefined)
NoDbResponse  == [route |-> "none", userId |-> Undefined, req |-> NoCredBody, status |-> 0,
                  body |-> EmptyCredBody]

\* a response, with the request it answers
DbRespond(route, userId, status, body) ==
    [route |-> route, userId |-> userId, req |-> NoCredBody, status |-> status, body |-> body]
Success      == [EmptyCredBody EXCEPT !.success = TRUE]
Failure(msg) == [EmptyCredBody EXCEPT !.error = msg]
Masked(userId, row) ==
    [EmptyCredBody EXCEPT !.userId = userId, !.walletAddress = row.wallet_address,
                          !.funderAddress = row.funder_address, !.hasCredentials = TRUE,
                          !.createdAt = row.created_at]

\* POST /credentials: the fields are checked and the row is upserted; the
\* statement may fail, and then the table is as it was
StoreCredentials ==
    /\ \E body \in CredBodies, postgres \in BOOLEAN, fails \in BOOLEAN :
          IF MissingRequiredFields(body)
          THEN /\ dbres' = [DbRespond("store", body.userId, 400, Failure("Missing required fields"))
                              EXCEPT !.req = body]
               /\ db' = db
          ELSE IF fails
          THEN /\ dbres' = [DbRespond("store", body.userId, 500, Failure("Failed to store credentials"))
                              EXCEPT !.req = body]
               /\ db' = db
          ELSE /\ db' = Upsert(db, body, now, postgres)
               /\ dbres' = [DbRespond("store", body.userId, 200, Success) EXCEPT !.req = body]
    /\ UNCHANGED <<tradeVars, rateVars, relayVars, signVars, routeVars>>

\* GET /credentials/:userId: the masked row
GetCredentials ==
    /\ \E userId \in CredUserIds, fails \in BOOLEAN :
          dbres' = IF fails
                   THEN DbRespond("get", userId, 500, Failure("Failed to fetch credentials"))
                   ELSE IF userId \notin DOMAIN db
                   THEN DbRespond("get", userId, 404, Failure("Credentials not found"))
                   ELSE DbRespond("get", userId, 200, Masked(userId, db[userId]))
    /\ db' = db
    /\ UNCHANGED <<tradeVars, rateVars, relayVars, signVars, routeVars>>

\* DELETE /credentials/:userId
DeleteCredentials ==
    /\ \E userId \in CredUserIds, fails \in BOOLEAN :
          IF fails
          THEN /\ dbres' = DbRespond("delete", userId, 500, Failure("Failed to delete credentials"))
               /\ db' = db
          ELSE /\ db' = Delete(db, userId)
               /\ dbres' = DbRespond("delete", userId, 200, Success)
    /\ UNCHANGED <<tradeVars, rateVars, relayVars, signVars, routeVars>>

NextCred == StoreCredentials \/ GetCredentials \/ DeleteCredentials


\* the API secrets, API keys and passphrases the exchange has issued or the
\* stores hold
FullSecrets == {Secret1, Secret2}
FullKeys    == {Key1, Key2}
FullPasses  == {Pass1, Pass2}

\* the credential values a body of server.js carries in full; a proper suffix
\* of a key or passphrase is not the value
CarriedInFull(body) ==
    {v \in {body.upstream.secret, body.upstream.key, body.upstream.passphrase,
            body.accessStatus.secret, body.accessStatus.key, body.accessStatus.passphrase} :
        TruthyValue(v)}

\* C16: no response of the relay contains a full secret value: the responses of
\* the provisioning, sanity and order routes and of the credential-read route
\* carry at most suffixes of the API key and passphrase and never the API
\* secret, on every path, including those that echo the upstream body.
C16_NoSecretInResponse ==
    /\ \A v \in CarriedInFull(reply.body) :
          v.chars \notin FullSecrets \cup FullKeys \cup FullPasses
    /\ reply.body.sent.keySfx \notin FullSecrets
    /\ reply.body.sent.passSfx \notin FullSecrets
    /\ reply.body.keySuffix \notin FullSecrets
    /\ reply.body.passSuffix \notin FullSecrets
    /\ \A u \in DOMAIN db :
          {dbres.body.walletAddress, dbres.body.funderAddress.chars}
              \cap {db[u].secret, db[u].api_key, db[u].passphrase} = {}

\* C17: after any sequence of store-credentials, delete-credentials and
\* provisioning operations, every stored credential row, in STORE and in the
\* table user_credentials, has its API key, API secret and passphrase all
\* present and non-empty.
C17_RowsComplete ==
    /\ \A k \in DOMAIN STORE :
          STORE[k].key # <<>> /\ STORE[k].secret # <<>> /\ STORE[k].pass # <<>>
    /\ \A u \in DOMAIN db :
          db[u].api_key # <<>> /\ db[u].secret # <<>> /\ db[u].passphrase # <<>>

\* both stores hold rows after provisioning, and an incomplete store-credentials
\* call for another user was refused
C17_Witness ==
    /\ DOMAIN STORE = {<<"polymarket:", ENV, ":", "0", "x", "a", "a">>,
                       <<"polymarket:", ENV, ":", "0", "x", "b", "b">>}
    /\ DOMAIN db = {"u2"}
    /\ dbres.route = "store"
    /\ dbres.status = 400
    /\ dbres.userId = "u1"

(***************************************************************************)
(* Properties of the credentials routes                                    *)
(***************************************************************************)
\* every row but that of user u is as it was
OthersUnchanged(u) ==
    /\ DOMAIN db' \ {u} = DOMAIN db \ {u}
    /\ \A x \in DOMAIN db \ {u} : db'[x] = db[x]

\* C18: a store-credentials call for user u that succeeds leaves u's row with
\* exactly the supplied API key, secret, passphrase and wallet address and with
\* the supplied funder address, or none when none is supplied, whatever the row
\* held before; a delete for u that succeeds removes u's row; neither changes
\* the row of any other user, and a call that fails changes nothing.  (A step
\* that leaves the clock alone is a call of one of the routes.)
C18_FullRowUpsert ==
    [][ (now' = now) =>
        /\ (dbres'.route = "store" /\ dbres'.status = 200)
            => LET u == dbres'.userId
                   q == dbres'.req
               IN  /\ u \in DOMAIN db'
                   /\ JSString(db'[u].api_key) = q.apiKey
                   /\ JSString(db'[u].secret) = q.secret
                   /\ JSString(db'[u].passphrase) = q.passphrase
                   /\ JSString(db'[u].wallet_address) = q.walletAddress
                   /\ db'[u].funder_address =
                          (IF TruthyValue(q.funderAddress) THEN q.funderAddress ELSE JSNull)
                   /\ db'[u].updated_at = <<"ISO-8601", now>>
                   /\ OthersUnchanged(u)
        /\ (dbres'.route = "delete" /\ dbres'.status = 200)
            => /\ dbres'.userId \notin DOMAIN db'
               /\ OthersUnchanged(dbres'.userId)
        /\ (dbres'.status # 200 \/ dbres'.route \notin {"store", "delete"})
            => db' = db ]_vars

\* a row that had a funder address was replaced by values without one, while
\* another user's row stands
C18_Witness ==
    /\ dbres.route = "store"
    /\ dbres.status = 200
    /\ dbres.userId = "u1"
    /\ dbres.req.funderAddress = JSUndefined
    /\ db["u1"].funder_address = JSNull
    /\ db["u1"].api_key = Key2
    /\ db["u1"].created_at = <<"timestamp", 0>>
    /\ db["u1"].updated_at # <<"ISO-8601", 0>>
    /\ "u2" \in DOMAIN db
    /\ db["u2"].funder_address = WalletB

(***************************************************************************)
(* Properties of the signed requests                                       *)
(***************************************************************************)
\* the requests that carry an HMAC signature: the order POSTs of executeTrade,
\* the ban-status GET of checkTradingStatus, and the verify, ban-status and
\* order requests of server.js
SignedPaths == {PathApiKeys, PathBanStatus, PathOrder}
SignedRequests ==
    {wire[i].req : i \in {j \in DOMAIN wire : wire[j].e = "POST"}}
        \cup (IF check.req = NoRequest THEN {} ELSE {check.req})
        \cup {rwire[i].req :
                i \in {j \in DOMAIN rwire : rwire[j].e = "fetch" /\ rwire[j].req.path \in SignedPaths}}

\* the body a request transmits: none for a GET
BodySent(req) == IF req.hasBody THEN req.body ELSE <<>>

\* C19: for every signed request sent to the exchange (each order attempt
\* including the funder retry, the ban-status check, the inline verify and the
\* requests of the sanity and order routes), the POLY_TIMESTAMP header is the
\* decimal string of an integer clock reading in seconds, and that same
\* integer is the one concatenated, after method and path and before the body,
\* into the preimage that was signed for the request.
C19_HeaderTimestampSigned ==
    \A req \in SignedRequests :
        \E n \in 0..EpochSeconds(now) :
            /\ req.headers.POLY_TIMESTAMP = Decimal(n)
            /\ req.headers.POLY_SIGNATURE.message =
                   req.method \o req.path \o Decimal(n) \o BodySent(req)

\* the owner attempt was signed at second 0 and the funder retry at second 59
C19_Witness ==
    /\ Len(wire) >= 5
    /\ wire[1].e = "POST"
    /\ wire[1].req.headers.POLY_TIMESTAMP = <<"0">>
    /\ wire[5].e = "POST"
    /\ wire[5].req.headers.POLY_TIMESTAMP = <<"5", "9">>
    /\ wire[5].req.headers.POLY_ADDRESS # wire[1].req.headers.POLY_ADDRESS

\* the order POSTs: those of executeTrade and that of /polymarket/order
OrderPosts ==
    {wire[i].req : i \in {j \in DOMAIN wire : wire[j].e = "POST"}}
        \cup {rwire[i].req :
                i \in {j \in DOMAIN rwire : rwire[j].e = "fetch" /\ rwire[j].req.path = PathOrder}}

\* C20: for every order POST, the request is a POST of /order, the preimage is
\* POST, then /order, then the timestamp, then exactly the string transmitted
\* as the HTTP body; and the owner attempt and the funder retry of one
\* executeTrade call transmit the same body.
C20_BodySignedIsBodySent ==
    /\ \A req \in OrderPosts :
          /\ req.method = <<"P", "O", "S", "T">>
          /\ req.path = <<"/", "o", "r", "d", "e", "r">>
          /\ req.hasBody
          /\ req.headers.POLY_SIGNATURE.message =
                 <<"P", "O", "S", "T", "/", "o", "r", "d", "e", "r">>
                     \o req.headers.POLY_TIMESTAMP \o req.body
    /\ \A i, j \in DOMAIN wire :
          (wire[i].e = "POST" /\ wire[j].e = "POST") => wire[i].req.body = wire[j].req.body

\* the funder retry of a SELL order was sent, at a later second than the owner
\* attempt
C20_Witness ==
    /\ Len(wire) >= 5
    /\ wire[5].e = "POST"
    /\ wire[5].req.headers.POLY_ADDRESS # wire[1].req.headers.POLY_ADDRESS
    /\ wire[5].req.headers.POLY_TIMESTAMP # wire[1].req.headers.POLY_TIMESTAMP
    /\ wire[5].req.body = <<"{", "\"", "s", "i", "d", "e", "\"", ":", "\"", "S", "E", "L", "L", "\"", "}">>

(***************************************************************************)
(* middleware/auth.js: authenticateRequest                                 *)
(***************************************************************************)
\* process.env.API_SECRET_KEY
API_SECRET == <<"a", "p", "i", "-", "s", "e", "c", "r", "e", "t">>

\* the headers a request may carry as Authorization
BearerSecret  == <<"B", "e", "a", "r", "e", "r", " ", "a", "p", "i", "-", "s", "e", "c", "r", "e", "t">>
BareSecret    == API_SECRET
LowerBearer   == <<"b", "e", "a", "r", "e", "r", " ", " ", "a", "p", "i", "-", "s", "e", "c", "r", "e", "t">>
BearerWrong   == <<"B", "e", "a", "r", "e", "r", " ", "w", "r", "o", "n", "g">>
BearerDotted  == <<"B", "e", "a", "r", "e", "r", " ", "a", ".", "b", ".", "c">>
AuthHeaders ==
    {JSUndefined, JSString(<<>>), JSString(BearerSecret), JSString(BareSecret),
     JSString(LowerBearer), JSString(BearerWrong), JSString(BearerDotted)}

\* process.env.NODE_ENV, read on every request
NodeEnvs == {"production", "development"}

\* the string starts with /^Bearer\s+/i
StartsWithBearer(h) ==
    /\ Len(h) >= 7
    /\ h[1] \in {"B", "b"} /\ h[2] \in {"E", "e"} /\ h[3] \in {"A", "a"}
    /\ h[4] \in {"R", "r"} /\ h[5] \in {"E", "e"} /\ h[6] \in {"R", "r"}
    /\ h[7] = " "

RECURSIVE SkipSpaces(_)
SkipSpaces(str) == IF str # <<>> /\ Head(str) = " " THEN SkipSpaces(Tail(str)) ELSE str

\* authHeader.replace(/^Bearer\s+/i, '')
StripBearer(h) == IF StartsWithBearer(h) THEN SkipSpaces(SubSeq(h, 7, Len(h))) ELSE h

\* str.includes(c)
Includes(str, c) == \E i \in DOMAIN str : str[i] = c

\* res.status(status).json(body)
Reply(status, body) == [status |-> status, body |-> body]

\* next() was called: no response
PassedOn == [status |-> 0, body |-> [next |-> TRUE]]

\* authenticateRequest(req, res, next): the response it gives, or PassedOn
authenticateRequest(authHeader, nodeEnv) ==
    IF ~TruthyValue(authHeader)
    THEN Reply(401, [error |-> "Missing authorization header"])
    ELSE LET token == StripBearer(authHeader.chars)
         IN  IF nodeEnv = "production" /\ token # API_SECRET /\ ~Includes(token, ".")
             THEN Reply(403, [error |-> "Invalid API key"])
             ELSE PassedOn

(***************************************************************************)
(* routes/polymarket.js: POST /trade                                       *)
(***************************************************************************)
\* the `credentials' object of a request body
ProvidedCreds(apiKey, secret, passphrase) ==
    [api_key |-> apiKey, secret |-> secret, passphrase |-> passphrase,
     funder_address |-> JSUndefined]

\* a request: the Authorization header, NODE_ENV at the time, and the body
TradeRequest(authHeader, nodeEnv, userId, order, wallet, funder, provided) ==
    [authorization |-> authHeader, nodeEnv |-> nodeEnv,
     body |-> [userId |-> userId, signedOrder |-> order, walletAddress |-> wallet,
               funderAddress |-> funder, credentials |-> provided]]

NoTradeRequest ==
    TradeRequest(JSUndefined, "", Undefined, JSUndefined, JSUndefined, JSUndefined, JSUndefined)

FullCreds == ProvidedCreds(JSString(Key1), JSString(Secret1), JSString(Pass1))
BuyOrder  == [side |-> <<"B", "U", "Y">>]

\* a well-formed request with credentials in the body, and requests that differ
\* from it in the header, in NODE_ENV or in a field of the body
TradeRequests ==
    {TradeRequest(h, e, "u1", BuyOrder, WalletA, JSUndefined, FullCreds) :
        h \in AuthHeaders, e \in NodeEnvs}
      \cup {TradeRequest(h, "production", Undefined, BuyOrder, WalletA, JSUndefined, FullCreds) :
              h \in {JSUndefined, JSString(BearerSecret)}}
      \cup {TradeRequest(JSString(BearerSecret), "production", "u1", o, w, JSUndefined, FullCreds) :
              o \in {JSUndefined, BuyOrder}, w \in {JSUndefined, JSString(<<>>), WalletA}}
      \cup {TradeRequest(JSString(BearerSecret), "production", "u1", BuyOrder, WalletA, f, c) :
              f \in {JSUndefined, WalletB},
              c \in {JSUndefined, FullCreds,
                     ProvidedCreds(JSString(Key1), JSString(Secret1), JSUndefined),
                     ProvidedCreds(JSString(Key1), JSString(<<>>), JSString(Pass1)),
                     ProvidedCreds(JSNull, JSString(Secret1), JSString(Pass1))}}

\* supplied credentials taken as complete when they carry an api_key
ProvidedComplete_KeyOnly(c) ==
    /\ c # JSUndefined
    /\ TruthyValue(c.api_key)

\* providedCreds && providedCreds.api_key && providedCreds.secret && providedCreds.passphrase
ProvidedComplete(c) ==
    /\ c # JSUndefined
    /\ TruthyValue(c.api_key) /\ TruthyValue(c.secret) /\ TruthyValue(c.passphrase)

\* SELECT * FROM user_credentials WHERE user_id = ?: the row as an object, or undefined
SelectRow(table, userId) ==
    IF userId \in DOMAIN table
    THEN [api_key |-> JSString(table[userId].api_key), secret |-> JSString(table[userId].secret),
          passphrase |-> JSString(table[userId].passphrase),
          funder_address |-> table[userId].funder_address]
    ELSE JSUndefined

\* !credentials.api_key || !credentials.secret || !credentials.passphrase
IncompleteCredentials(c) ==
    ~TruthyValue(c.api_key) \/ ~TruthyValue(c.secret) \/ ~TruthyValue(c.passphrase)

\* the handler, from its first line to the executeTrade call: the response it
\* gives, or the arguments it calls executeTrade with; `lookup' tells whether it
\* queried the database, and `fails' whether that query threw
Handler(body, table, fails) ==
    IF body.signedOrder = JSUndefined \/ ~TruthyValue(body.walletAddress)
    THEN [lookup |-> FALSE, call |-> FALSE,
          response |-> Reply(400, [error |-> "Missing required fields: signedOrder, walletAddress"])]
    ELSE LET provided == ProvidedComplete(body.credentials)
             lookup   == ~provided /\ Truthy(body.userId)
             creds    == IF provided THEN body.credentials
                         ELSE IF lookup THEN SelectRow(table, body.userId)
                         ELSE JSUndefined
         IN  IF lookup /\ fails
             THEN [lookup |-> TRUE, call |-> FALSE,
                   response |-> Reply(500, [error |-> "Internal server error"])]
             ELSE IF creds = JSUndefined
             THEN [lookup |-> lookup, call |-> FALSE,
                   response |-> Reply(404, [error |-> "Credentials not found. Please connect your wallet first."])]
             ELSE IF IncompleteCredentials(creds)
             THEN [lookup |-> lookup, call |-> FALSE,
                   response |-> Reply(400, [error |-> "Incomplete credentials. Missing api_key, secret, or passphrase."])]
             ELSE [lookup |-> lookup, call |-> TRUE,
                   owner |-> body.walletAddress.chars,
                   funder |-> IF TruthyValue(body.funderAddress) THEN body.funderAddress
                              ELSE creds.funder_address,
                   creds |-> [apiKey |-> creds.api_key.chars, secret |-> creds.secret.chars,
                              passphrase |-> creds.passphrase.chars],
                   order |-> body.signedOrder]

\* the response of the rate limiter, as sent
RateLimitReply(r) ==
    IF r.status = 400
    THEN Reply(400, [error |-> "Missing userId for rate limiting"])
    ELSE Reply(429, [error |-> "Rate limit exceeded", retryAfter |-> r.retryAfter,
                     limit |-> RATE_LIMIT_MAX_REQUESTS, window |-> RATE_LIMIT_WINDOW \div 1000])

\* the response made of what executeTrade returned
TradeReply(returned) ==
    IF returned.success
    THEN Reply(200, [success |-> TRUE, orderId |-> returned.orderId,
                     attemptedWith |-> returned.attemptedWith])
    ELSE Reply(IF returned.status = 0 THEN 400 ELSE returned.status,
               [success |-> FALSE, error |-> returned.error,
                attemptedWith |-> returned.attemptedWith])

\* res.json(body) that sends nothing
json_Dropped(sent, response) == sent

\* res.json(body): one more response goes to the caller
json(sent, response) == Append(sent, response)

\* the request ends with this response
Ended(req, steps, response) ==
    [pc |-> "done", req |-> req, steps |-> steps, sent |-> json(<<>>, response)]

\* the request ends without a call of executeTrade: there are no locals of one
NotExecuted ==
    /\ pc' = "idle"
    /\ ownerAddress' = <<>>
    /\ funderAddress' = JSUndefined
    /\ wire' = <<>>
    /\ result' = NoResult
    /\ ret' = NoReturn
    /\ credentials' = NoCredentials
    /\ signedOrder' = NoOrder
    /\ UNCHANGED check

\* the route with the two middlewares in the other order: rateLimiter, then
\* authenticateRequest
TradeRoute_LimiterFirst(req, fails) ==
    /\ tradeRoute.pc = "idle"
    /\ pc = "idle"
    /\ rateLimiter(req.body.userId)
    /\ LET auth == authenticateRequest(req.authorization, req.nodeEnv)
           h    == Handler(req.body, db, fails)
       IN  IF res'.kind = "rejected"
           THEN /\ tradeRoute' = Ended(req, <<>>, RateLimitReply(res'))
                /\ NotExecuted
           ELSE IF auth # PassedOn
           THEN /\ tradeRoute' = Ended(req, <<>>, auth)
                /\ NotExecuted
           ELSE IF h.call
           THEN /\ executeTrade(h.owner, h.funder, h.creds, h.order)
                /\ tradeRoute' = [pc |-> "executing", req |-> req,
                                  steps |-> <<"authenticateRequest", "rateLimiter", "executeTrade">>,
                                  sent |-> <<>>]
                /\ UNCHANGED check
           ELSE /\ tradeRoute' = Ended(req, <<"authenticateRequest", "rateLimiter">>, h.response)
                /\ NotExecuted
    /\ UNCHANGED <<relayVars, credVars, signVars>>

\* a request arrives: authenticateRequest, rateLimiter and the handler run, up to
\* the response or to the first POST of executeTrade.  Requests share only the
\* limiter's map, which the middleware reads and writes in one go, so one request
\* at a time shows every behaviour of a request.
TradeRoute(req, fails) ==
    /\ tradeRoute.pc = "idle"
    /\ pc = "idle"
    /\ LET auth == authenticateRequest(req.authorization, req.nodeEnv)
       IN  IF auth # PassedOn
           THEN /\ tradeRoute' = Ended(req, <<>>, auth)
                /\ NotExecuted
                /\ UNCHANGED rateVars
           ELSE /\ rateLimiter(req.body.userId)
                /\ IF res'.kind = "rejected"
                   THEN /\ tradeRoute' = Ended(req, <<"authenticateRequest">>, RateLimitReply(res'))
                        /\ NotExecuted
                   ELSE LET h     == Handler(req.body, db, fails)
                            steps == <<"authenticateRequest", "rateLimiter">>
                                         \o (IF h.lookup THEN <<"SELECT">> ELSE <<>>)
                        IN  IF h.call
                            THEN /\ executeTrade(h.owner, h.funder, h.creds, h.order)
                                 /\ tradeRoute' = [pc |-> "executing", req |-> req,
                                              steps |-> Append(steps, "executeTrade"),
                                              sent |-> <<>>]
                                 /\ UNCHANGED check
                            ELSE /\ tradeRoute' = Ended(req, steps, h.response)
                                 /\ NotExecuted
    /\ UNCHANGED <<relayVars, credVars, signVars>>

\* executeTrade has returned: the handler answers
TradeRespond ==
    /\ tradeRoute.pc = "executing"
    /\ pc = "done"
    /\ tradeRoute' = [tradeRoute EXCEPT !.pc = "done", !.sent = json(@, TradeReply(ret))]
    /\ pc' = "idle"
    /\ UNCHANGED <<ownerAddress, funderAddress, wire, result, ret, credentials, signedOrder, check>>
    /\ UNCHANGED <<rateVars, relayVars, credVars, signVars>>

\* the response has been delivered: the request and the locals of its
\* executeTrade call are gone
TradeDelivered ==
    /\ tradeRoute.pc = "done"
    /\ tradeRoute' = [pc |-> "idle", req |-> NoTradeRequest, steps |-> <<>>, sent |-> <<>>]
    /\ NotExecuted
    /\ UNCHANGED <<rateVars, relayVars, credVars, signVars>>

NextRoute ==
    \/ \E req \in TradeRequests, fails \in BOOLEAN : TradeRoute(req, fails)
    \/ tradeRoute.pc = "executing" /\ (FirstAnswer \/ Backoff \/ SecondAnswer)
    \/ TradeRespond
    \/ TradeDelivered

(***************************************************************************)
(* Network exceptions in executeTrade                                      *)
(***************************************************************************)
\* the fetch of the attempt whose outcome is entry i of the wire threw
ThrewAt(i) == i \in DOMAIN wire /\ wire[i].e = "answer" /\ wire[i].resp.kind = "exception"

\* the value attemptTrade made of the latest outcome is a failure with status 500
\* that carries the message of the exception
ConvertedTo500 ==
    /\ result.success = FALSE
    /\ result.status = 500
    /\ result.error = wire[Len(wire)].resp.text

\* C29: when the fetch of an order POST throws, attemptTrade returns
\* {success: false, error, status: 500}; when that was the owner attempt,
\* executeTrade returns a failure with status 500 and attemptedWith "owner"
\* without a funder retry, whatever funder is configured
C29_ExceptionNotRetried ==
    /\ ThrewAt(Len(wire))
          => /\ ConvertedTo500
             /\ pc \in {"done", "idle"}
             /\ ret.success = FALSE
             /\ ret.status = 500
             /\ ret.error = wire[Len(wire)].resp.text
    /\ ThrewAt(2)
          => /\ Len(wire) = 2
             /\ wire[1].e = "POST"
             /\ wire[1].address = ownerAddress
             /\ ret.attemptedWith = "owner"

\* the owner attempt threw although a funder other than the owner is configured
C29_Witness ==
    /\ ThrewAt(2)
    /\ pc = "done"
    /\ TruthyValue(funderAddress)
    /\ toLowerCase(funderAddress.chars) # toLowerCase(ownerAddress)
    /\ ret.status = 500

(***************************************************************************)
(* Properties of the relay key                                             *)
(***************************************************************************)
\* a request arrives at server.js
RelayArrives == rpc = "idle" /\ rpc' # "idle"

RouteAnswer == tradeRoute.sent[1]

RouteDone == tradeRoute.pc = "done" /\ tradeRoute.sent # <<>>

\* the order POSTs of the request's executeTrade call
OrderPostsMade == {i \in DOMAIN wire : wire[i].e = "POST"}

\* the rate limiter admitted the request: it answered next() for the request's
\* userId and the user's window holds the time of the request
AdmittedByLimiter ==
    /\ res.kind = "next"
    /\ res.userId = tradeRoute.req.body.userId
    /\ UserKey(res.userId) \in DOMAIN rateLimitMap
    /\ rateLimitMap[UserKey(res.userId)] # <<>>

\* a step in which a request is answered by authenticateRequest
AuthRejects ==
    /\ tradeRoute.pc = "idle" /\ tradeRoute'.pc = "done"
    /\ tradeRoute'.sent[1].status \in {401, 403}
    /\ tradeRoute'.sent[1].body \in {[error |-> "Missing authorization header"],
                                      [error |-> "Invalid API key"]}

\* a step in which a request is answered by rateLimiter
LimiterRejects ==
    /\ tradeRoute.pc = "idle" /\ tradeRoute'.pc = "done"
    /\ \/ tradeRoute'.sent[1].status = 429
       \/ tradeRoute'.sent[1] = Reply(400, [error |-> "Missing userId for rate limiting"])

\* C25: on POST /trade the executor runs, and an order is POSTed, only for a
\* request that passed authenticateRequest and then rateLimiter; a request that
\* authenticateRequest rejects leaves the rate windows as they were; a request
\* that rateLimiter rejects causes no credential lookup and no upstream call
C25_GateBeforeExecutor ==
    /\ [](pc # "idle" \/ OrderPostsMade # {}
            => /\ Len(tradeRoute.steps) >= 3
               /\ tradeRoute.steps[1] = "authenticateRequest"
               /\ tradeRoute.steps[2] = "rateLimiter"
               /\ tradeRoute.steps[Len(tradeRoute.steps)] = "executeTrade"
               /\ AdmittedByLimiter)
    /\ [][AuthRejects => /\ rateLimitMap' = rateLimitMap
                          /\ admitted' = admitted
                          /\ res' = res
                          /\ wire' = <<>> /\ pc' = "idle"]_vars
    /\ [][LimiterRejects => /\ tradeRoute'.steps = <<"authenticateRequest">>
                             /\ wire' = <<>> /\ pc' = "idle"
                             /\ db' = db]_vars

\* the eleventh request of a user within the window: answered 429 with nothing
\* sent to the exchange
C25_Witness ==
    /\ RouteDone
    /\ RouteAnswer.status = 429
    /\ tradeRoute.steps = <<"authenticateRequest">>
    /\ Len(rateLimitMap[UserKey("u1")]) = RATE_LIMIT_MAX_REQUESTS
    /\ wire = <<>>

\* the request got past authenticateRequest
PassedAuthentication ==
    /\ tradeRoute.pc \in {"executing", "done"}
    /\ tradeRoute.steps # <<>>
    /\ tradeRoute.steps[1] = "authenticateRequest"

\* the bearer token a request presents: its Authorization header without the
\* Bearer prefix
PresentedToken(req) == StripBearer(req.authorization.chars)

\* C26: in production mode a request gets past authenticateRequest, to the rate
\* limiter and the trade handler, only if it presents the shared secret
\* API_SECRET_KEY as its bearer token
C26_OnlySharedSecret ==
    tradeRoute.req.nodeEnv = "production" /\ PassedAuthentication
        => /\ TruthyValue(tradeRoute.req.authorization)
           /\ PresentedToken(tradeRoute.req) = API_SECRET

\* a value is a non-empty string
NonEmptyString(v) == v.type = "string" /\ v.chars # <<>>

\* the request body supplies api_key, secret and passphrase
SuppliedTriple(body) ==
    /\ body.credentials # JSUndefined
    /\ NonEmptyString(body.credentials.api_key)
    /\ NonEmptyString(body.credentials.secret)
    /\ NonEmptyString(body.credentials.passphrase)

\* the request passed the gate and carries signedOrder and walletAddress
ReachedCredentials ==
    /\ tradeRoute.pc \in {"executing", "done"}
    /\ Len(tradeRoute.steps) >= 2
    /\ tradeRoute.req.body.signedOrder # JSUndefined
    /\ NonEmptyString(tradeRoute.req.body.walletAddress)

\* the database query of the request threw
QueryFailed == RouteDone /\ RouteAnswer = Reply(500, [error |-> "Internal server error"])

\* executeTrade was called with this triple
ExecutedWith(key, secret, passphrase) ==
    /\ tradeRoute.steps[Len(tradeRoute.steps)] = "executeTrade"
    /\ OrderPostsMade # {}
    /\ credentials = [apiKey |-> key, secret |-> secret, passphrase |-> passphrase]

\* the request was answered with this client error, executeTrade was not called
\* and nothing was sent to the exchange
RefusedWith(status, message) ==
    /\ RouteDone
    /\ RouteAnswer = Reply(status, [error |-> message])
    /\ "executeTrade" \notin {tradeRoute.steps[i] : i \in DOMAIN tradeRoute.steps}
    /\ wire = <<>>
    /\ pc = "idle"

RowComplete(row) == row.api_key # <<>> /\ row.secret # <<>> /\ row.passphrase # <<>>

\* C28: an order is POSTed only with a complete credential triple.  POST /trade
\* uses the supplied credentials when all three fields are present and the
\* stored row of userId otherwise; with neither it answers 404 'Credentials not
\* found', with an incomplete row 400; /polymarket/order answers 400 'No creds
\* for EOA' without a stored row; in these cases nothing is sent
C28_CompleteTripleOrNoOrder ==
    /\ \A req \in OrderPosts :
          /\ req.headers.POLY_API_KEY # <<>>
          /\ req.headers.POLY_PASSPHRASE # <<>>
          /\ req.headers.POLY_SIGNATURE.keyBytes.of # <<>>
    /\ ReachedCredentials /\ ~QueryFailed
          => LET body == tradeRoute.req.body
                 given == body.credentials
             IN  IF SuppliedTriple(body)
                 THEN /\ ExecutedWith(given.api_key.chars, given.secret.chars,
                                      given.passphrase.chars)
                      /\ "SELECT" \notin {tradeRoute.steps[i] : i \in DOMAIN tradeRoute.steps}
                 ELSE IF body.userId \notin DOMAIN db
                 THEN RefusedWith(404, "Credentials not found. Please connect your wallet first.")
                 ELSE IF RowComplete(db[body.userId])
                 THEN ExecutedWith(db[body.userId].api_key, db[body.userId].secret,
                                   db[body.userId].passphrase)
                 ELSE RefusedWith(400, "Incomplete credentials. Missing api_key, secret, or passphrase.")
    /\ rreq.route = "order" /\ rreq.relayKey = RELAY_KEY
          => LET eoa == StringOrEmpty(rreq.body.address)
             IN  IF HasRow(eoa)
                 THEN /\ rwire # <<>>
                      /\ rwire[1].e = "fetch"
                      /\ rwire[1].req.headers.POLY_API_KEY = STORE[rowKey(eoa)].key
                      /\ rwire[1].req.headers.POLY_PASSPHRASE = STORE[rowKey(eoa)].pass
                      /\ rwire[1].req.headers.POLY_SIGNATURE.keyBytes.of = STORE[rowKey(eoa)].secret
                 ELSE /\ rpc = "done"
                      /\ reply.status = 400
                      /\ reply.body.error = "No creds for EOA"
                      /\ rwire = <<>>

\* a request whose supplied credentials lack a field, served with the stored row
C28_Witness ==
    /\ tradeRoute.pc = "executing"
    /\ tradeRoute.req.body.credentials # JSUndefined
    /\ ~SuppliedTriple(tradeRoute.req.body)
    /\ tradeRoute.steps = <<"authenticateRequest", "rateLimiter", "SELECT", "executeTrade">>
    /\ credentials.apiKey = db["u1"].api_key
    /\ OrderPostsMade # {}

\* a response of POST /trade is a status with a JSON object as body
StructuredReply(r) == r.status \in 100..599 /\ DOMAIN r.body # {}

\* a provisioning request is being handled and has not been answered
Provisioning == rreq.route = "auth-create" /\ rpc \notin {"idle", "done"}

\* C30: every provisioning request and every trade request past the gate gets
\* a response, and exactly one, whatever the exchange answers at each step
C30_ExactlyOneResponse ==
    /\ [](/\ Len(tradeRoute.sent) <= 1
          /\ tradeRoute.pc = "executing" => tradeRoute.sent = <<>>
          /\ tradeRoute.pc = "done"
                => Len(tradeRoute.sent) = 1 /\ StructuredReply(tradeRoute.sent[1])
          /\ Provisioning => reply = NoReply
          /\ rpc = "done" => reply.status \in 100..599)
    /\ [][tradeRoute.sent # <<>> => tradeRoute'.sent \in {tradeRoute.sent, <<>>}]_vars
    /\ [][reply # NoReply => reply' \in {reply, NoReply}]_vars
    /\ (tradeRoute.pc = "executing" ~> tradeRoute.pc = "done")
    /\ (Provisioning ~> rpc = "done")

\* a trade request answered after the owner attempt got 403 and the funder
\* retry threw
C30_Witness ==
    /\ tradeRoute.pc = "done"
    /\ Len(wire) = 6
    /\ wire[2].status = 403
    /\ wire[6].resp.kind = "exception"
    /\ Len(tradeRoute.sent) = 1
    /\ tradeRoute.sent[1].status = 500

\* the funder retry has been sent
RetrySent == Len(wire) >= 5 /\ wire[5].e = "POST"

\* C36: the funder retry carries the api_key, the passphrase, the signing
\* secret and the signedOrder that were handed to executeTrade and that the
\* owner attempt carried, and only the address is another one; a stored or
\* deleted row of the same user during the owner attempt or the backoff does
\* not change that.
C36_RetrySameCredentials ==
    RetrySent
    => LET first == wire[1].req
           retry == wire[5].req
       IN  /\ retry.headers.POLY_API_KEY = first.headers.POLY_API_KEY
           /\ retry.headers.POLY_API_KEY = credentials.apiKey
           /\ retry.headers.POLY_PASSPHRASE = first.headers.POLY_PASSPHRASE
           /\ retry.headers.POLY_PASSPHRASE = credentials.passphrase
           /\ retry.headers.POLY_SIGNATURE.keyBytes = first.headers.POLY_SIGNATURE.keyBytes
           /\ retry.headers.POLY_SIGNATURE.keyBytes.of = NormalizeSecret(credentials.secret)
           /\ retry.body = first.body
           /\ retry.body = JSON_stringify(signedOrder)
           /\ retry.method = first.method /\ retry.path = first.path
           /\ first.headers.POLY_ADDRESS = ownerAddress
           /\ retry.headers.POLY_ADDRESS = funderAddress.chars
           /\ retry.headers.POLY_ADDRESS # first.headers.POLY_ADDRESS

\* the credentials came from the row of u1, the row was replaced by one with
\* another key while the call was under way, and the retry has been sent
C36_Witness ==
    /\ RetrySent
    /\ tradeRoute.pc = "executing"
    /\ tradeRoute.steps = <<"authenticateRequest", "rateLimiter", "SELECT", "executeTrade">>
    /\ "u1" \in DOMAIN db
    /\ db["u1"].api_key # credentials.apiKey
    /\ dbres.route = "store"

\* the request was answered with what executeTrade returned
AnsweredFromExecutor ==
    /\ RouteDone
    /\ tradeRoute.steps # <<>>
    /\ tradeRoute.steps[Len(tradeRoute.steps)] = "executeTrade"

\* C37: when executeTrade returned success = false, also for an HTTP-OK answer
\* of the exchange without an order id, the status of the response of
\* POST /trade is not a 2xx status.
C37_FailureNever2xx ==
    (AnsweredFromExecutor /\ ~ret.success)
    => /\ RouteAnswer.body.success = FALSE
       /\ ~ResponseOk(RouteAnswer.status)

(***************************************************************************)
(* Properties of checkTradingStatus                                        *)
(***************************************************************************)
\* the call has returned
StatusDone == check.pc = "done"

\* the upstream closedOnly flag of an answer: set only when the body says so
ClosedOnlyFlag(answer) == answer.text = "{\"closedOnly\":true}"

\* the body of an answer is a JSON object
StatusBodyIsObject(answer) ==
    answer.text \in {"{\"closedOnly\":true}", "{\"closedOnly\":false}", "{}"}

StatusAnswerOk(answer) == answer.kind = "response" /\ answer.status \in 200..299

\* the call returned a value with an error string and trading disabled
StatusDisabledWithError ==
    /\ check.ret.tradingEnabled = FALSE
    /\ check.ret.error # <<>>

\* the call made one GET to the ban-status endpoint and no other request
OneStatusGet ==
    /\ Len(check.fetches) = 1
    /\ check.fetches[1].method = GET
    /\ check.fetches[1].path = PathBanStatus

\* C24 as claimed: every OK answer yields the negation of the closedOnly flag
C24_AsClaimed ==
    StatusDone
        => /\ check.ret # NoReturn
           /\ ~StatusAnswerOk(check.answer) => StatusDisabledWithError
           /\ StatusAnswerOk(check.answer)
                  => check.ret.tradingEnabled = ~ClosedOnlyFlag(check.answer)
           /\ OneStatusGet

\* C24: checkTradingStatus returns a value and never throws; a network
\* exception or a non-OK status yields tradingEnabled false with an error
\* string; an OK answer with a JSON object as body yields the negation of its
\* closedOnly flag and no error; an OK answer with any other body yields
\* tradingEnabled false with an error string; one GET is made, never a second
C24_StatusCheck ==
    /\ Len(check.fetches) <= 1
    /\ StatusDone
        => /\ check.ret # NoReturn
           /\ ~StatusAnswerOk(check.answer) => StatusDisabledWithError
           /\ StatusAnswerOk(check.answer) /\ StatusBodyIsObject(check.answer)
                  => /\ check.ret.tradingEnabled = ~ClosedOnlyFlag(check.answer)
                     /\ check.ret.error = <<>>
           /\ StatusAnswerOk(check.answer) /\ ~StatusBodyIsObject(check.answer)
                  => StatusDisabledWithError
           /\ OneStatusGet

\* an OK answer whose flag is set, after which trading is reported disabled
C24_Witness ==
    /\ StatusDone
    /\ StatusAnswerOk(check.answer)
    /\ ClosedOnlyFlag(check.answer)
    /\ check.ret.tradingEnabled = FALSE
    /\ check.ret.error = <<>>

(***************************************************************************)
(* The signing routines, called on their own                               *)
(***************************************************************************)
\* the standard-base64 spelling of Secret1
Secret1Standard == <<"s", "+", "/", "1">>

SignSecrets    == {Secret1, Secret1Standard, Secret2}
SignMethods    == {GET, POST}
SignPaths      == {PathOrder, PathBanStatus}
SignTimestamps == {30, 1700000000}
SignOrder      == [side |-> <<"B", "U", "Y">>]
SignBodies     == {JSUndefined, JSString(<<>>), JSString(JSON_stringify(SignOrder))}

\* the preimages server.js builds: ts + method + path (+ body)
RelayPreimages ==
    {Decimal(t) \o GET \o PathAccess : t \in SignTimestamps}
        \cup {Decimal(t) \o POST \o PathOrder \o JSON_stringify(SignOrder) :
                  t \in SignTimestamps}

NoCall == [routine |-> "none"]

\* the calls that may be remembered beside a new one: the one before it or the
\* older one remembered so far
Remembered == IF signed.earlier = NoCall THEN {signed.latest} ELSE {signed.earlier, signed.latest}

\* a call of generateSignature, which signs with hmacBase64
SignCall(secret, method, path, timestamp, body) ==
    /\ \E before \in Remembered :
          signed' = [earlier |-> before,
                     latest  |-> [routine |-> "hmacBase64", secret |-> secret,
                                  method |-> method, path |-> path,
                                  timestamp |-> timestamp, body |-> body,
                                  signature |-> generateSignature(secret, method, path,
                                                                  timestamp, body)]]
    /\ UNCHANGED <<tradeVars, rateVars, relayVars, credVars, routeVars>>

Sign ==
    \E secret \in SignSecrets, method \in SignMethods, path \in SignPaths,
       timestamp \in SignTimestamps, body \in SignBodies :
        SignCall(secret, method, path, timestamp, body)

\* a call of hmacB64
SignRelayCall(secret, pre) ==
    /\ \E before \in Remembered :
          signed' = [earlier |-> before,
                     latest  |-> [routine |-> "hmacB64", secret |-> secret, pre |-> pre,
                                  signature |-> hmacB64(secret, pre)]]
    /\ UNCHANGED <<tradeVars, rateVars, relayVars, credVars, routeVars>>

SignRelay == \E secret \in SignSecrets, pre \in RelayPreimages : SignRelayCall(secret, pre)

NextSign == Sign \/ SignRelay

\* a call and a call made before it
BothSigned == signed.earlier # NoCall /\ signed.latest # NoCall

\* two calls of one routine that differ at most in the spelling of the secret
SameButSpelling(a, b) ==
    /\ a.routine = b.routine
    /\ [a EXCEPT !.secret = <<>>, !.signature = Undefined]
           = [b EXCEPT !.secret = <<>>, !.signature = Undefined]
    /\ NormalizeSecret(a.secret) = NormalizeSecret(b.secret)

\* C21: a secret spelled in base64url ('-', '_') and the same secret spelled in
\* standard base64 ('+', '/') give the same HMAC key bytes and the same
\* signature, in hmacBase64 and in hmacB64
C21_SpellingIrrelevant ==
    BothSigned /\ SameButSpelling(signed.earlier, signed.latest)
        => /\ signed.earlier.signature.keyBytes = signed.latest.signature.keyBytes
           /\ signed.earlier.signature = signed.latest.signature

\* the decimal digits of the timestamps the calls are made with
DecimalText(t) ==
    IF t = 30 THEN <<"3", "0">> ELSE <<"1", "7", "0", "0", "0", "0", "0", "0", "0", "0">>

\* the body a call was made with, as text: nothing when the argument was omitted
BodyText(call) == IF call.body = JSUndefined THEN <<>> ELSE call.body.chars

\* C22: generateSignature signs method, path, the decimal timestamp and the
\* body joined with nothing in between, the body being empty when omitted
C22_PreimageIsConcatenation ==
    \A call \in {signed.earlier, signed.latest} :
        call.routine = "hmacBase64"
            => /\ call.signature.message
                      = call.method \o call.path \o DecimalText(call.timestamp) \o BodyText(call)
               /\ Len(call.signature.message)
                      = Len(call.method) + Len(call.path) + Len(DecimalText(call.timestamp))
                            + Len(BodyText(call))

\* a call with the body omitted after a call with an order as body
C22_Witness ==
    /\ signed.earlier.routine = "hmacBase64"
    /\ signed.earlier.body = JSString(JSON_stringify(SignOrder))
    /\ signed.latest.routine = "hmacBase64"
    /\ signed.latest.body = JSUndefined
    /\ signed.latest.signature.message = POST \o PathOrder \o <<"3", "0">>

\* the arguments of a call
Arguments(call) == [call EXCEPT !.signature = Undefined]

\* a step that is a signing call
SignStep == signed' # signed

\* C23: signing is deterministic and free of side effects: a call returns what
\* an earlier call with the same arguments returned, whatever happened in
\* between, and a call leaves the rate windows, the credential stores and all
\* other state of the relay as they were
C23_SignPure ==
    /\ [](BothSigned /\ Arguments(signed.earlier) = Arguments(signed.latest)
              => signed.earlier.signature = signed.latest.signature)
    /\ [][SignStep => /\ rateLimitMap' = rateLimitMap /\ now' = now
                       /\ db' = db /\ STORE' = STORE
                       /\ UNCHANGED <<tradeVars, rateVars, relayVars, credVars, routeVars>>]_vars

\* a call repeated with the same arguments after the clock has advanced, a
\* request has been admitted by the rate limiter and credentials were stored
C23_Witness ==
    /\ BothSigned
    /\ Arguments(signed.earlier) = Arguments(signed.latest)
    /\ signed.latest.routine = "hmacBase64"
    /\ ticks > 0
    /\ rateLimitMap # <<>>
    /\ db # <<>>

(***************************************************************************)
(* Initial state: the modules are loaded and no request has arrived        *)
(***************************************************************************)
Init ==
    /\ pc = "idle"
    /\ ownerAddress = <<>>
    /\ funderAddress = JSUndefined
    /\ wire = <<>>
    /\ result = NoResult
    /\ ret = NoReturn
    /\ credentials = NoCredentials
    /\ signedOrder = NoOrder
    /\ check = [pc |-> "idle", req |-> NoRequest, fetches |-> <<>>,
                answer |-> NoStatusAnswer, ret |-> NoReturn]
    /\ now = 0
    /\ ticks = 0
    /\ rateLimitMap = <<>>
    /\ res = NoResponse
    /\ admitted = [u \in RateUserIds |-> <<>>]
    /\ fresh = [u \in RateUserIds |-> 0]
    /\ hinted = [u \in RateUserIds |-> 0]
    /\ STORE = <<>>
    /\ rpc = "idle"
    /\ rreq = NoRelayRequest
    /\ up = NoUp
    /\ rwire = <<>>
    /\ reply = NoReply
    /\ db = <<>>
    /\ dbres = NoDbResponse
    /\ signed = [earlier |-> NoCall, latest |-> NoCall]
    /\ tradeRoute = [pc |-> "idle", req |-> NoTradeRequest, steps |-> <<>>, sent |-> <<>>]

(***************************************************************************)
(* Specifications                                                          *)
(***************************************************************************)
\* one executeTrade call after another; the gate's state stays as constructed
SpecTrade == Init /\ [][NextTrade]_vars

\* requests through the rate limiter, the clock and the sweep
SpecRate == Init /\ [][NextRate]_vars

\* requests through the rate limiter, the clock and the sweep, with callers
\* that come back when the retry-after hint says
NextRetry == NextRate \/ WaitRetryAfter
SpecRetry == Init /\ [][NextRetry]_vars

\* requests of two users through the rate limiter, the clock and the sweep;
\* the second user asks again only once its window is gone from the map
NextUsers ==
    \/ Tick
    \/ \E userId \in UserIds : RateLimiter(userId)
    \/ \E userId \in RateUserIds \ UserIds :
          UserKey(userId) \notin DOMAIN rateLimitMap /\ RateLimiter(userId)
    \/ Sweep
SpecUsers == Init /\ [][NextUsers]_vars

\* one request to server.js after another
SpecRelay == Init /\ [][NextRelay]_vars
\* credentials of user u1 are stored or not, then one request to POST /trade
\* after another
NextTrades ==
    \/ /\ tradeRoute.pc = "idle" /\ rateLimitMap = <<>> /\ dbres = NoDbResponse
       /\ StoreCredentials
       /\ "u1" \in DOMAIN db'
    \/ NextRoute
SpecRoute == Init /\ [][NextTrades]_vars

\* POST /trade with requests that store or delete the row of the same user
\* while the owner attempt or the backoff of executeTrade is under way
NextRace ==
    \/ /\ tradeRoute.pc = "idle" /\ rateLimitMap = <<>> /\ dbres = NoDbResponse
       /\ StoreCredentials
       /\ "u1" \in DOMAIN db'
    \/ /\ rateLimitMap = <<>>
       /\ \E req \in TradeRequests, fails \in BOOLEAN : TradeRoute(req, fails)
    \/ (tradeRoute.pc = "executing" /\ (FirstAnswer \/ Backoff \/ SecondAnswer))
    \/ /\ tradeRoute.pc = "executing" /\ pc \in {"attempt1", "backoff"}
       /\ (StoreCredentials \/ DeleteCredentials)
       /\ dbres'.userId = tradeRoute.req.body.userId
       /\ db' # db
    \/ TradeRespond
    \/ TradeDelivered
SpecRace == Init /\ [][NextRace]_vars

\* the two programs that place orders: routes/polymarket.js and server.js.  They
\* are separate processes without common state, so a behaviour follows one.
RouteUntouched ==
    tradeRoute.pc = "idle" /\ rateLimitMap = <<>> /\ db = <<>> /\ dbres = NoDbResponse
NextOrders ==
    \/ (rpc = "idle" /\ STORE = <<>> /\ NextTrades)
    \/ (RouteUntouched /\ NextRelay)
SpecOrders == Init /\ [][NextOrders]_vars

\* provisioning requests and trade requests, each fetch of which is answered or
\* throws, and each timer of which fires
NextAnswered ==
    \/ /\ RouteUntouched /\ rpc = "idle" /\ STORE = <<>>
       /\ StoreCredentials
       /\ "u1" \in DOMAIN db'
    \/ /\ rpc = "idle" /\ STORE = <<>> /\ rateLimitMap = <<>>
       /\ \E req \in TradeRequests, fails \in BOOLEAN : TradeRoute(req, fails)
    \/ (tradeRoute.pc = "executing" /\ (FirstAnswer \/ Backoff \/ SecondAnswer))
    \/ TradeRespond
    \/ TradeDelivered
    \/ (RouteUntouched /\ NextRelay)
SpecAnswered ==
    /\ Init /\ [][NextAnswered]_vars
    /\ WF_vars(FirstAnswer) /\ WF_vars(Backoff) /\ WF_vars(SecondAnswer)
    /\ WF_vars(TradeRespond)
    /\ WF_vars(CreateAnswer) /\ WF_vars(DeriveAnswer) /\ WF_vars(AccessAnswer)
    /\ WF_vars(VerifyAnswer)

\* one checkTradingStatus call after another, the clock advancing
NextCheck == NextStatus \/ Tick
SpecStatus == Init /\ [][NextCheck]_vars

\* the signing routines called with every combination of arguments
SpecSign == Init /\ [][NextSign]_vars

\* signing calls with one secret, among steps of the clock, a request to the
\* rate limiter and a request that stores credentials
NextPure ==
    \/ \E timestamp \in SignTimestamps, body \in {JSUndefined, JSString(JSON_stringify(SignOrder))} :
          SignCall(Secret1, POST, PathOrder, timestamp, body)
    \/ \E timestamp \in SignTimestamps :
          SignRelayCall(Secret1, Decimal(timestamp) \o GET \o PathAccess)
    \/ Tick
    \/ (res = NoResponse /\ \E userId \in UserIds : RateLimiter(userId))
    \/ (dbres = NoDbResponse /\ StoreCredentials)
SpecPure == Init /\ [][NextPure]_vars

\* the credentials routes and the clock
NextStore == NextCred \/ Tick
SpecCred  == Init /\ [][NextStore]_vars

\* both credential stores.  server.js and the credentials routes share no
\* state, so every interleaving of their requests leaves the two stores as the
\* sequence with the requests to server.js first does; those sequences are
\* followed
NextStores ==
    \/ (dbres = NoDbResponse /\ NextRelay)
    \/ (rpc = "idle" /\ NextCred)
SpecStores == Init /\ [][NextStores]_vars

\* every sender of signed requests and the clock.  executeTrade,
\* checkTradingStatus and server.js share nothing but the clock, so each
\* behaviour follows one of them, and one executeTrade call up to its return
\* (calls share no state); the clock is read only when a request is built, so
\* its advance is followed only where the next step of the call builds one
TradeUntouched  == pc = "idle" /\ wire = <<>>
StatusUntouched == check.pc = "idle" /\ check.req = NoRequest
RelayUntouched  == rpc = "idle" /\ STORE = <<>>
ClockReadNext ==
    /\ TradeUntouched \/ pc = "backoff"
    /\ StatusUntouched
    /\ rpc \in {"idle", "create", "derive"}
NextSigned ==
    \/ (ClockReadNext /\ Tick)
    \/ (StatusUntouched /\ RelayUntouched /\ TradeUntouched /\ Call)
    \/ (StatusUntouched /\ RelayUntouched /\ (FirstAnswer \/ Backoff \/ SecondAnswer))
    \/ (TradeUntouched /\ RelayUntouched /\ NextStatus)
    \/ (TradeUntouched /\ StatusUntouched /\ NextRelay)
SpecSigned == Init /\ [][NextSigned]_vars

Next == NextTrade \/ NextStatus \/ NextRate \/ NextRelay \/ NextCred \/ NextSign \/ NextRoute
Spec == Init /\ [][Next]_vars

====
